---- MODULE Spec2Model ----
(***************************************************************************)
(* Model of the task-document core of copilot-specs (src/src/taskManager.ts):*)
(* the markdown task parser and the completion mutators that rewrite the    *)
(* stored tasks file.                                                       *)
(*                                                                          *)
(* Text representation.  A document is the sequence of its lines, i.e. the  *)
(* value of content.split("\n"); lines.join("\n") is the inverse, so the    *)
(* stored text and its line sequence determine each other.  A line is a     *)
(* sequence of tokens.  Every token is a literal piece of text: " " is one  *)
(* space, "\r" a carriage return, "[ ]" "[x]" "[X]" the three bracket       *)
(* groups, "###" a heading prefix, "a" "h" "s" "txt" plain words, and an    *)
(* HTML comment is one token.  The regular expressions of the source are    *)
(* operators over token sequences that accept exactly the token sequences   *)
(* whose text the regular expression accepts.                               *)
(***************************************************************************)
EXTENDS Integers, Sequences, FiniteSets, TLC

VARIABLES
    content,   \* the stored tasks file: readTextFile(uri).split("\n")
    input,     \* the text the last operation read and worked on
    op         \* the last operation: its kind, arguments and whether it wrote

vars == <<content, input, op>>

\* Longest document, in lines.
MaxLines == 3

\* The longest text, in words, given to extractRequirementIdsFromText.
MaxWords == 4

\* The largest number of triggers of automatic linking (changes under the
\* specs directory, saved documents) in a behaviour.
MaxTriggers == 4

(***************************************************************************)
(* Tokens and character classes                                            *)
(***************************************************************************)

\* \s of the regular expressions and the characters String.trim() removes.
SpaceToks == {" ", "\r"}

IsSpace(t) == t \in SpaceToks

\* (x|X| ) inside brackets: the checkbox markers TASK_LINE accepts.
Markers == {"[ ]", "[x]", "[X]"}

\* subtaskMatch[2].toLowerCase() === "x"
IsChecked(m) == m \in {"[x]", "[X]"}

\* <!-- task:ID --> comments, one token each.
TaskIdComments == {"<!-- task:A -->", "<!-- task:T2 -->"}

\* Group 1 of TASK_ID_COMMENT.
TaskIdOf(tok) == IF tok = "<!-- task:A -->" THEN "A" ELSE "T2"

\* Tokens whose text starts with "#", ">", "<!--", "-", "*".
HashToks == {"#", "##", "###", "####"}
QuoteToks == {">"}
CommentToks == TaskIdComments \cup {"<!-- note -->", "<!--"}
DashToks == {"-", "---", "-->"}
StarToks == {"*", "**"}

\* A requires or files comment is written token by token: "<!--", the key
\* ("requires:", "files:"), the entries or the glob, "-->".  Requirement ids
\* as they occur in titles and comments; they stand apart from word tokens (a
\* space, a comma or a comment delimiter on either side) in every line of the
\* model.
RequiresKeys == {"requires:", "require:"}
FilesKeys == {"files:"}
ReqIdToks == {"REQ-1", "req-1", "R2", "r2", "ABC-1"}

\* Those of them that /\b((?:NFR|FR|REQ)-\d+(?:\.\d+)*|R\d+)\b/gi matches.
LinkReqIdToks == {"REQ-1", "req-1", "R2", "r2"}

\* Words of titles, in lower case, and with a capital.
TitleWords ==
    {"session", "token", "login", "alpha", "bravo", "delta", "hotel", "india",
     "page", "update", "recovery", "and"}
CapitalWords == {"Session"}

\* The key of a requires comment written without its colon, as in
\* `<!-- requires : REQ-1 -->`.
BareRequiresKeys == {"requires", "require"}

\* Bracket groups around one character: the markers and an invalid one.
BracketToks == Markers \cup {"[?]"}

\* Tokens whose text contains a whitespace character (so \S+ cannot span them).
InnerSpaceToks == {"[ ]"} \cup CommentToks

IsNonSpaceTok(t) == t \notin SpaceToks /\ t \notin InnerSpaceToks

(***************************************************************************)
(* String helpers on token sequences                                       *)
(***************************************************************************)

MinOf(S) == CHOOSE x \in S : \A y \in S : x <= y

MaxOf(S) == CHOOSE x \in S : \A y \in S : x >= y

\* Number of leading whitespace tokens of s.
LeadSpaces(s) ==
    LET ns == {i \in 1..Len(s) : ~IsSpace(s[i])}
    IN  IF ns = {} THEN Len(s) ELSE MinOf(ns) - 1

\* String.trimStart()
TrimStart(s) == SubSeq(s, LeadSpaces(s) + 1, Len(s))

\* String.trim()
Trim(s) ==
    LET ns == {i \in 1..Len(s) : ~IsSpace(s[i])}
    IN  IF ns = {} THEN <<>> ELSE SubSeq(s, MinOf(ns), MaxOf(ns))

\* line.replace(/\r$/, "")
StripCR(s) ==
    IF Len(s) > 0 /\ s[Len(s)] = "\r" THEN SubSeq(s, 1, Len(s) - 1) ELSE s

\* s without its i-th token.
RemoveAt(s, i) == SubSeq(s, 1, i - 1) \o SubSeq(s, i + 1, Len(s))

\* The text of a run of tokens as one string.
RECURSIVE Concat(_)
Concat(s) == IF s = <<>> THEN "" ELSE s[1] \o Concat(Tail(s))

\* `.+$` after `\s+`: r is at least one whitespace followed by at least one
\* character that is no line terminator.
TailOK(r) ==
    \E p \in 1..(Len(r) - 1) :
        /\ \A i \in 1..p : IsSpace(r[i])
        /\ \A i \in (p + 1)..Len(r) : r[i] # "\r"

NoMatch == [ok |-> FALSE]

\* `-\s+\[(x|X| )\]` at the start of s: the marker and what follows it.
CheckboxPrefix(s) ==
    IF Len(s) >= 3 /\ s[1] = "-" /\ IsSpace(s[2])
    THEN LET t == SubSeq(s, 2, Len(s))
             k == LeadSpaces(t)
         IN  IF k < Len(t) /\ t[k + 1] \in Markers
             THEN [ok |-> TRUE, mark |-> t[k + 1],
                   rest |-> SubSeq(t, k + 2, Len(t))]
             ELSE NoMatch
    ELSE NoMatch

\* TASK_LINE = /^(\s*)-\s+\[(x|X| )\]\s+(.+)$/
TaskLineMatch(line) ==
    LET k == LeadSpaces(line)
        c == CheckboxPrefix(SubSeq(line, k + 1, Len(line)))
    IN  IF c.ok /\ TailOK(c.rest)
        THEN [ok |-> TRUE, indent |-> k, mark |-> c.mark, text |-> c.rest]
        ELSE NoMatch

\* SUBTASK_LINE = /^(\s{2,})-\s+\[(x|X| )\]\s+(.+)$/
SubtaskLineMatch(line) ==
    LET m == TaskLineMatch(line)
    IN  IF m.ok /\ m.indent >= 2 THEN m ELSE NoMatch

\* HEADING_TASK_LINE = /^###\s+(?:-\s+\[(x|X| )\]\s+)?(.+)$/
\* mark is "" when the optional checkbox group did not take part in the match.
HeadingTaskMatch(line) ==
    IF Len(line) >= 2 /\ line[1] = "###" /\ IsSpace(line[2])
    THEN LET t == Tail(line)
             k == LeadSpaces(t)
             c == CheckboxPrefix(SubSeq(t, k + 1, Len(t)))
         IN  IF c.ok /\ TailOK(c.rest)
             THEN [ok |-> TRUE, mark |-> c.mark, text |-> c.rest]
             ELSE IF TailOK(t)
                  THEN [ok |-> TRUE, mark |-> "", text |-> t]
                  ELSE NoMatch
    ELSE NoMatch

\* /^###\s+-\s+\[(x|X| )\]/.test(s) for marks = Markers (parseTasks) and
\* /^###\s+-\s+\[(x| )\]/.test(s) for marks = {"[x]", "[ ]"} (the cascade).
HeadingCheckboxTest(s, marks) ==
    /\ Len(s) >= 2 /\ s[1] = "###" /\ IsSpace(s[2])
    /\ LET t == Tail(s)
           c == CheckboxPrefix(SubSeq(t, LeadSpaces(t) + 1, Len(t)))
       IN  c.ok /\ c.mark \in marks

(***************************************************************************)
(* parseTasks                                                              *)
(***************************************************************************)

\* AutoId counting from zero.
AutoIdFromZero(n) == "T" \o ToString(n - 1)

\* `T${taskCounter}`
AutoId(n) == "T" \o ToString(n)

\* Index of the first token of s that is in S, 0 when there is none.
FirstIn(s, S) ==
    LET hits == {i \in 1..Len(s) : s[i] \in S}
    IN  IF hits = {} THEN 0 ELSE MinOf(hits)

\* titlePart.match(TASK_ID_COMMENT) and titlePart.replace(TASK_ID_COMMENT, "").trim()
CommentIdMatch(title) ==
    LET i == FirstIn(title, TaskIdComments)
    IN  IF i = 0 THEN NoMatch
        ELSE [ok |-> TRUE, id |-> TaskIdOf(title[i]),
              title |-> Trim(RemoveAt(title, i))]

\* BOLD_ID = /^\*\*(\S+?)\*\*[:\s]\s*/ and titlePart.replace(BOLD_ID, "").trim()
BoldIdMatch(title) ==
    LET ends == {j \in 3..(Len(title) - 1) :
                    /\ title[j] = "**"
                    /\ \A i \in 2..(j - 1) : IsNonSpaceTok(title[i])
                    /\ (title[j + 1] = ":" \/ IsSpace(title[j + 1]))}
    IN  IF Len(title) >= 4 /\ title[1] = "**" /\ ends # {}
        THEN LET j == MinOf(ends)
             IN  [ok |-> TRUE, id |-> Concat(SubSeq(title, 2, j - 1)),
                  title |-> Trim(SubSeq(title, j + 2, Len(title)))]
        ELSE NoMatch

\* /^(\S+?):\s+/ and titlePart.replace(/^\S+?:\s+/, "").trim()
ColonIdMatch(title) ==
    LET ends == {j \in 2..(Len(title) - 1) :
                    /\ title[j] = ":"
                    /\ IsSpace(title[j + 1])
                    /\ \A i \in 1..(j - 1) : IsNonSpaceTok(title[i])}
    IN  IF ends # {}
        THEN LET j == MinOf(ends)
             IN  [ok |-> TRUE, id |-> Concat(SubSeq(title, 1, j - 1)),
                  title |-> Trim(SubSeq(title, j + 1, Len(title)))]
        ELSE NoMatch

\* ExtractTaskId trying the bold prefix before the comment.
ExtractTaskIdBoldFirst(text, isHeading, counter) ==
    LET t0 == Trim(text)
        b == BoldIdMatch(t0)
        c == CommentIdMatch(t0)
        k == ColonIdMatch(t0)
    IN  IF b.ok THEN [id |-> b.id, title |-> b.title]
        ELSE IF c.ok THEN [id |-> c.id, title |-> c.title]
        ELSE IF isHeading /\ k.ok THEN [id |-> k.id, title |-> k.title]
        ELSE [id |-> AutoId(counter), title |-> t0]

\* The id of a task line and the title left once the id's markup is removed:
\* the comment, then the bold prefix, then (heading tasks only) the bare
\* `ID: ` prefix, else T<taskCounter>.
ExtractTaskId(text, isHeading, counter) ==
    LET t0 == Trim(text)
        c == CommentIdMatch(t0)
        t1 == IF c.ok THEN c.title ELSE t0
        b == BoldIdMatch(t1)
        k == ColonIdMatch(t1)
    IN  IF c.ok THEN [id |-> c.id, title |-> t1]
        ELSE IF b.ok THEN [id |-> b.id, title |-> b.title]
        ELSE IF isHeading /\ k.ok THEN [id |-> k.id, title |-> k.title]
        ELSE [id |-> AutoId(counter), title |-> t1]

\* String.toUpperCase() on one token.
UpperTok(t) ==
    CASE t = "req-1" -> "REQ-1"
      [] t = "r2" -> "R2"
      [] t = "req" -> "REQ"
      [] t = "a" -> "A"
      [] t = "h" -> "H"
      [] t = "s" -> "S"
      [] t = "b" -> "B"
      [] t = "q" -> "Q"
      [] t = "txt" -> "TXT"
      [] t = "abc-1" -> "ABC-1"
      [] t = "session" -> "SESSION"
      [] t = "token" -> "TOKEN"
      [] t = "login" -> "LOGIN"
      [] t = "alpha" -> "ALPHA"
      [] t = "bravo" -> "BRAVO"
      [] t = "delta" -> "DELTA"
      [] t = "hotel" -> "HOTEL"
      [] t = "india" -> "INDIA"
      [] t = "page" -> "PAGE"
      [] t = "update" -> "UPDATE"
      [] t = "recovery" -> "RECOVERY"
      [] t = "and" -> "AND"
      [] t = "Session" -> "SESSION"
      [] t = "requires:" -> "REQUIRES:"
      [] t = "require:" -> "REQUIRE:"
      [] OTHER -> t

\* The characters of /^[-*\s:]+|[-*\s:]+$/g.
StripToks == SpaceToks \cup {"-", "---", "*", "**", ":"}

\* normalizeRequirementId(value): trim, strip dashes, asterisks, whitespace
\* and colons from both ends, upper-case.  The result is a string.
normalizeRequirementId(value) ==
    LET ns == {i \in 1..Len(value) : value[i] \notin StripToks}
        core == IF ns = {} THEN <<>> ELSE SubSeq(value, MinOf(ns), MaxOf(ns))
    IN  Concat([i \in 1..Len(core) |-> UpperTok(core[i])])

\* reqStr.split(","): the runs between the commas ("" gives one empty run).
RECURSIVE SplitCommas(_)
SplitCommas(s) ==
    LET i == FirstIn(s, {","})
    IN  IF i = 0 THEN <<s>>
        ELSE <<SubSeq(s, 1, i - 1)>> \o SplitCommas(SubSeq(s, i + 1, Len(s)))

\* .filter((r) => r.length > 0)
RECURSIVE NonEmptyOnly(_)
NonEmptyOnly(ids) ==
    IF ids = <<>> THEN <<>>
    ELSE (IF ids[1] = "" THEN <<>> ELSE <<ids[1]>>) \o NonEmptyOnly(Tail(ids))

\* Distinct keeping every occurrence.
DistinctKeepAll(ids) == ids

\* [...new Set(ids)]: first occurrences, in order.
RECURSIVE Distinct(_)
Distinct(ids) ==
    IF ids = <<>> THEN <<>>
    ELSE LET front == Distinct(SubSeq(ids, 1, Len(ids) - 1))
             last == ids[Len(ids)]
         IN  IF \E i \in 1..Len(front) : front[i] = last THEN front
             ELSE Append(front, last)

\* Tokens whose text starts and ends with a word character, and those
\* whose text starts, or ends, with one.
WordToks ==
    {"a", "h", "s", "b", "q", "txt", "A", "B", "C", "req"} \cup ReqIdToks
    \cup TitleWords \cup CapitalWords
    \cup BareRequiresKeys
StartsWord(t) == t \in WordToks \cup RequiresKeys \cup FilesKeys \cup {"src/**", "lib/*"}
EndsWord(t) == t \in WordToks

\* extractRequirementIdsFromText(text): the matches of
\* /\b([A-Z]+-\d+(?:\.\d+)*|R\d+)\b/gi, normalized, without repetitions.
extractRequirementIdsFromText(text) ==
    LET hits == {i \in 1..Len(text) :
                    /\ text[i] \in ReqIdToks
                    /\ (i > 1 => ~EndsWord(text[i - 1]))
                    /\ (i < Len(text) => ~StartsWord(text[i + 1]))}
        F[i \in 0..Len(text)] ==
            IF i = 0 THEN <<>>
            ELSE IF i \in hits THEN Append(F[i - 1], normalizeRequirementId(<<text[i]>>))
            ELSE F[i - 1]
    IN  Distinct(F[Len(text)])

\* /<!--\s*KEY\s*(.+?)\s*-->/ on s, for KEY among keys: the first "<!--"
\* followed by a key and then by the shortest non-empty body up to a "-->".
\* from and to are the positions of "<!--" and "-->", body is group 1 before
\* trimming.
KeyedCommentMatch(s, keys) ==
    LET KeyAt(p) ==
            LET t == SubSeq(s, p + 1, Len(s))
                k == LeadSpaces(t)
            IN  IF k < Len(t) /\ t[k + 1] \in keys THEN p + k + 1 ELSE 0
        EndAt(q) ==
            LET ends == {e \in (q + 2)..Len(s) :
                            /\ s[e] = "-->"
                            /\ \A i \in (q + 1)..(e - 1) : s[i] # "\r"}
            IN  IF ends = {} THEN 0 ELSE MinOf(ends)
        starts == {p \in 1..Len(s) :
                      /\ s[p] = "<!--"
                      /\ KeyAt(p) # 0
                      /\ EndAt(KeyAt(p)) # 0}
    IN  IF starts = {} THEN NoMatch
        ELSE LET p == MinOf(starts)
                 e == EndAt(KeyAt(p))
             IN  [ok |-> TRUE, from |-> p, to |-> e,
                  body |-> SubSeq(s, KeyAt(p) + 1, e - 1)]

\* FILES_COMMENT = /<!--\s*files:\s*(.+?)\s*-->/ and filesMatch[1].trim()
FilesGlob(m) ==
    IF m.ok THEN [ok |-> TRUE, glob |-> Concat(Trim(m.body))] ELSE NoMatch

FilesMatch(line) == FilesGlob(KeyedCommentMatch(line, FilesKeys))

\* REQUIRES_COMMENT = /<!--\s*requires?:\s*(.+?)\s*-->/ on the title: ids is
\* the list built from group 1 (trim, split, normalize, filter), title the
\* title once the match is removed and trimmed.
RequiresEntries(m, title) ==
    IF ~m.ok THEN NoMatch
    ELSE LET parts == SplitCommas(Trim(m.body))
         IN  [ok |-> TRUE,
              ids |-> NonEmptyOnly([i \in 1..Len(parts) |->
                                       normalizeRequirementId(parts[i])]),
              title |-> Trim(SubSeq(title, 1, m.from - 1)
                             \o SubSeq(title, m.to + 1, Len(title)))]

RequiresMatch(title) ==
    RequiresEntries(KeyedCommentMatch(title, RequiresKeys), title)

\* The title once the requires comment r, if any, is removed.
TitleWithoutRequires(r, titlePart) == IF r.ok THEN r.title ELSE titlePart

\* ChooseRequirementIds adding the inferred ids to those of the comment.
ChooseRequirementIdsAlsoInferred(r, t, inferred) ==
    [title |-> t,
     defined |-> (IF r.ok THEN r.ids ELSE <<>>) \o inferred # <<>>,
     ids |-> (IF r.ok THEN r.ids ELSE <<>>) \o inferred]

\* The requirementIds of a task whose title part has the requires match r,
\* the final title t and the ids inferred from t: the entries of the requires
\* comment, else (no comment, or no entry left) the inferred ids; defined is
\* FALSE for undefined.
ChooseRequirementIds(r, t, inferred) ==
    IF r.ok /\ r.ids # <<>>
    THEN [title |-> t, defined |-> TRUE, ids |-> r.ids]
    ELSE IF inferred # <<>>
    THEN [title |-> t, defined |-> TRUE, ids |-> inferred]
    ELSE [title |-> t, defined |-> r.ok, ids |-> <<>>]

RequirementIdsOfTitle(r, t) ==
    ChooseRequirementIds(r, t, extractRequirementIdsFromText(t))

RequirementIdsOfMatch(r, titlePart) ==
    RequirementIdsOfTitle(r, TitleWithoutRequires(r, titlePart))

\* The requirementIds of a task and its final title.
ExtractRequirementIds(titlePart) ==
    RequirementIdsOfMatch(RequiresMatch(titlePart), titlePart)

\* The SubTask object built from a matching line.
NewSubTask(m, i) ==
    [title |-> Trim(m.text), completed |-> IsChecked(m.mark), lineIndex |-> i]

\* PushSubTask onto the first task of the list, whichever task is open.
PushSubTaskOntoFirst(tasks, k, sub) ==
    [tasks EXCEPT ![1].subTasks = Append(@, sub)]

\* currentTask.subTasks.push(sub)
PushSubTask(tasks, k, sub) ==
    [tasks EXCEPT ![k].subTasks = Append(@, sub)]

\* The Task object with the id, the title and the requirementIds (r) found,
\* and the one built from the id and title part e of ExtractTaskId.
TaskObject(id, r, completed, i) ==
    [id |-> id, title |-> r.title, completed |-> completed,
     lineIndex |-> i, subTasks |-> <<>>,
     requirementIds |-> [defined |-> r.defined, ids |-> r.ids]]

TaskWithId(e, completed, i) ==
    TaskObject(e.id, ExtractRequirementIds(e.title), completed, i)

\* The Task object of a heading line (explicit checkbox value when present,
\* otherwise false until the derivation pass).
NewHeadingTask(m, i, counter) ==
    TaskWithId(ExtractTaskId(m.text, TRUE, counter),
               IF m.mark # "" THEN IsChecked(m.mark) ELSE FALSE, i)

\* The Task object of a checkbox line.
NewCheckboxTask(m, i, counter) ==
    TaskWithId(ExtractTaskId(m.text, FALSE, counter), IsChecked(m.mark), i)

\* ClosesTask without the tests on the first characters of the line.
ClosesTaskAnyText(line) == Trim(line) # <<>>

\* The `else if` of the loop body: a non-blank line that starts with none of
\* "#", ">", "<!--", "-", "*" clears currentTask and currentHeadingTask.
ClosesTask(line) ==
    LET t == Trim(line)
    IN  /\ t # <<>>
        /\ t[1] \notin HashToks
        /\ t[1] \notin QuoteToks
        /\ t[1] \notin CommentToks
        /\ t[1] \notin DashToks
        /\ t[1] \notin StarToks

\* InsideHeadingTask that never sees an open heading task.
InsideHeadingTaskNever(st) == FALSE

\* `if (currentHeadingTask)`: a heading task is open.
InsideHeadingTask(st) == st.head # 0

\* The parser's loop variables before line 0.
ParseInit ==
    [tasks |-> <<>>, cur |-> 0, head |-> 0, counter |-> 0,
     fileGlob |-> [defined |-> FALSE, glob |-> ""],
     inFrontmatter |-> FALSE, frontmatterDone |-> FALSE]

\* The rules for a line that holds no files comment: subtask, heading task,
\* checkbox task, closing rule.
ParseTaskLine(st, i, line) ==
    LET sm == SubtaskLineMatch(line)
        hm == HeadingTaskMatch(line)
        tm == TaskLineMatch(line)
        n == Len(st.tasks) + 1
    IN  IF sm.ok /\ st.cur # 0
        THEN [st EXCEPT !.tasks = PushSubTask(@, st.cur, NewSubTask(sm, i))]
        ELSE IF hm.ok
        THEN [st EXCEPT !.counter = @ + 1,
                        !.tasks = Append(@, NewHeadingTask(hm, i, st.counter + 1)),
                        !.cur = n, !.head = n]
        ELSE IF tm.ok
        THEN IF InsideHeadingTask(st)
             THEN [st EXCEPT !.tasks = PushSubTask(@, st.head, NewSubTask(tm, i))]
             ELSE [st EXCEPT !.counter = @ + 1,
                             !.tasks = Append(@, NewCheckboxTask(tm, i, st.counter + 1)),
                             !.cur = n]
        ELSE IF ClosesTask(line) THEN [st EXCEPT !.cur = 0, !.head = 0]
        ELSE st

\* ParseFilesLine without the `continue`: the line goes on to the other
\* rules.
ParseFilesLineFallThrough(st, i, line, glob) ==
    [ParseTaskLine(st, i, line)
        EXCEPT !.fileGlob = [defined |-> TRUE, glob |-> glob]]

\* `fileGlob = filesMatch[1].trim(); continue;`
ParseFilesLine(st, i, line, glob) ==
    [st EXCEPT !.fileGlob = [defined |-> TRUE, glob |-> glob]]

\* One iteration of the loop over the lines, after the frontmatter block:
\* raw is lines[i].  cur and head are the positions in tasks of currentTask
\* and currentHeadingTask (0: undefined); fileGlob.defined is FALSE for undefined.
ParseMatchedLine(st, i, line, f) ==
    IF f.ok THEN ParseFilesLine(st, i, line, f.glob)
    ELSE ParseTaskLine(st, i, line)

ParseBodyLine(st, i, line) == ParseMatchedLine(st, i, line, FilesMatch(line))

\* InFrontmatterBlock never holding: the lines after an opening `---` are
\* read as body lines.
InFrontmatterBlockNever(st) == FALSE

\* `if (!frontmatterDone) { ... if (inFrontmatter) {`: the line lies after
\* the opening `---` and not after the closing one.
InFrontmatterBlock(st) == ~st.frontmatterDone /\ st.inFrontmatter

\* One iteration of the loop, frontmatter skipping included.
ParseLine(st, i, raw) ==
    LET line == StripCR(raw)
        dashes == Trim(line) = <<"---">>
    IN  IF ~st.frontmatterDone /\ i = 0 /\ dashes
        THEN [st EXCEPT !.inFrontmatter = TRUE]
        ELSE IF InFrontmatterBlock(st)
        THEN IF dashes
             THEN [st EXCEPT !.inFrontmatter = FALSE, !.frontmatterDone = TRUE]
             ELSE st
        ELSE ParseBodyLine([st EXCEPT !.frontmatterDone = TRUE], i, line)

\* The loop `for (let i = 0; i < lines.length; i++)`, from line i on.
RECURSIVE ParseLoop(_, _, _)
ParseLoop(lines, i, st) ==
    IF i >= Len(lines) THEN st
    ELSE ParseLoop(lines, i + 1, ParseLine(st, i, lines[i + 1]))

\* task.subTasks.every((st) => st.completed)
AllSubTasksCompleted(task) ==
    \A k \in 1..Len(task.subTasks) : task.subTasks[k].completed

\* DeriveCompleted with `some` in place of `every`.
DeriveCompletedSome(lines, task) ==
    LET taskLine == TrimStart(lines[task.lineIndex + 1])
    IN  IF /\ Len(taskLine) > 0 /\ taskLine[1] \in (HashToks \ {"#", "##"})
           /\ ~HeadingCheckboxTest(taskLine, Markers)
           /\ Len(task.subTasks) > 0
        THEN [task EXCEPT !.completed =
                 \E k \in 1..Len(task.subTasks) : task.subTasks[k].completed]
        ELSE task

\* The second pass: a heading task without explicit checkbox and with at
\* least one subtask is completed exactly when all its subtasks are.
DeriveCompleted(lines, task) ==
    LET taskLine == TrimStart(lines[task.lineIndex + 1])
    IN  IF /\ Len(taskLine) > 0 /\ taskLine[1] \in (HashToks \ {"#", "##"})
           /\ ~HeadingCheckboxTest(taskLine, Markers)
           /\ Len(task.subTasks) > 0
        THEN [task EXCEPT !.completed = AllSubTasksCompleted(task)]
        ELSE task

\* parseTasks(content, specName): the tasks and the fileGlob (not defined when
\* undefined).
parseTasks(lines) ==
    LET st == ParseLoop(lines, 0, ParseInit)
    IN  [tasks |-> [k \in 1..Len(st.tasks) |-> DeriveCompleted(lines, st.tasks[k])],
         fileGlob |-> st.fileGlob]

(***************************************************************************)
(* Completion mutators                                                     *)
(***************************************************************************)

\* FindTask falling back to the first task when no id matches.
FindTaskOrFirst(tasks, taskId) ==
    LET hits == {k \in 1..Len(tasks) : tasks[k].id = taskId}
    IN  IF hits = {} THEN (IF Len(tasks) > 0 THEN 1 ELSE 0) ELSE MinOf(hits)

\* tasks.find((t) => t.id === taskId): the position of the first task with
\* that id, 0 when find returns undefined.
FindTask(tasks, taskId) ==
    LET hits == {k \in 1..Len(tasks) : tasks[k].id = taskId}
    IN  IF hits = {} THEN 0 ELSE MinOf(hits)

\* NewMark with the two branches exchanged.
NewMarkSwapped(completed) == IF completed THEN "[ ]" ELSE "[x]"

\* completed ? "x" : " ", inside the brackets of the replacement text.
NewMark(completed) == IF completed THEN "[x]" ELSE "[ ]"

\* The bracket groups the pattern /\[(x| )\]/ of the three mutators matches.
ReplaceableMarks == {"[x]", "[ ]"}

\* line.replace(/\[(x| )\]/, `[${newMark}]`): the first match only.
ReplaceMark(line, mark) ==
    LET i == FirstIn(line, ReplaceableMarks)
    IN  IF i = 0 THEN line ELSE [line EXCEPT ![i] = mark]

\* ReplaceMarkAt rewriting every line instead of lines[lineIndex].
ReplaceMarkEverywhere(lines, lineIndex, mark) ==
    [i \in 1..Len(lines) |-> ReplaceMark(lines[i], mark)]

\* lines[lineIndex] = lines[lineIndex].replace(...)
ReplaceMarkAt(lines, lineIndex, mark) ==
    [lines EXCEPT ![lineIndex + 1] = ReplaceMark(@, mark)]

\* setTaskCompleted from the text read to the text written, tasks being
\* parseTasks(content).tasks: wrote is FALSE when the function returns before
\* writeTextFile.
SetCompletedText(lines, tasks, taskId, completed) ==
    LET k == FindTask(tasks, taskId)
    IN  IF k = 0 THEN [wrote |-> FALSE, lines |-> lines]
        ELSE [wrote |-> TRUE,
              lines |-> ReplaceMarkAt(lines, tasks[k].lineIndex, NewMark(completed))]

\* RewritesParentLine without the heading test.
RewritesParentLineAlways(parentLine) == TRUE

\* The parent-line test of markTaskAndSubtasksCompleted:
\* !isHeading || HEADING_EXPLICIT.test(parentLine.trimStart())
RewritesParentLine(parentLine) ==
    LET t == TrimStart(parentLine)
        isHeading == Len(t) > 0 /\ t[1] \in (HashToks \ {"#", "##"})
    IN  ~isHeading \/ HeadingCheckboxTest(t, ReplaceableMarks)

\* for (const sub of task.subTasks) lines[sub.lineIndex] = ...replace(...)
RECURSIVE ReplaceSubTaskMarks(_, _, _, _)
ReplaceSubTaskMarks(lines, subTasks, k, mark) ==
    IF k > Len(subTasks) THEN lines
    ELSE ReplaceSubTaskMarks(
             IF subTasks[k].lineIndex >= 0 /\ subTasks[k].lineIndex < Len(lines)
             THEN ReplaceMarkAt(lines, subTasks[k].lineIndex, mark)
             ELSE lines,
             subTasks, k + 1, mark)

\* markTaskAndSubtasksCompleted from the text read to the text written, tasks
\* being parseTasks(content).tasks.
CascadeText(lines, tasks, taskId, completed) ==
    LET k == FindTask(tasks, taskId)
    IN  IF k = 0 THEN [wrote |-> FALSE, lines |-> lines]
        ELSE LET task == tasks[k]
                 parent == IF RewritesParentLine(lines[task.lineIndex + 1])
                           THEN ReplaceMarkAt(lines, task.lineIndex, NewMark(completed))
                           ELSE lines
             IN  [wrote |-> TRUE,
                  lines |-> ReplaceSubTaskMarks(parent, task.subTasks, 1,
                                                NewMark(completed))]

\* The toggles as the commands and autopilot call them: the function and the
\* value of completed.
ToggleCalls ==
    {<<"setTaskCompleted", TRUE>>, <<"setTaskCompleted", FALSE>>,
     <<"markTaskAndSubtasksCompleted", TRUE>>}

\* A call of a toggle from the text its read returned (lines, with tasks
\* being parseTasks of it) to the text it passes to writeTextFile.
ToggleText(fn, lines, tasks, taskId, completed) ==
    IF fn = "setTaskCompleted"
    THEN SetCompletedText(lines, tasks, taskId, completed)
    ELSE CascadeText(lines, tasks, taskId, completed)

\* The text a call writes taken from the file as it is when the write lands,
\* not from what the call read.
TextToWriteMerged(file, call) ==
    ToggleText(call.fn, file, parseTasks(file).tasks, call.taskId,
               call.completed).lines

\* writeTextFile(uri, lines.join("\n")): the text written is the one
\* rewritten from what the call read.
TextToWrite(file, call) == call.text

\* ApplyLoop without the completedIds.has(task.id) test.
RECURSIVE ApplyLoopAll(_, _, _, _)
ApplyLoopAll(lines, tasks, k, completedIds) ==
    IF k > Len(tasks) THEN lines
    ELSE ApplyLoopAll(
             IF ~tasks[k].completed
             THEN ReplaceMarkAt(lines, tasks[k].lineIndex, "[x]")
             ELSE lines,
             tasks, k + 1, completedIds)

\* The loop of applyCompletedIds over the freshly parsed tasks.
RECURSIVE ApplyLoop(_, _, _, _)
ApplyLoop(lines, tasks, k, completedIds) ==
    IF k > Len(tasks) THEN lines
    ELSE ApplyLoop(
             IF tasks[k].id \in completedIds /\ ~tasks[k].completed
             THEN ReplaceMarkAt(lines, tasks[k].lineIndex, "[x]")
             ELSE lines,
             tasks, k + 1, completedIds)

\* applyCompletedIds(newContent, completedIds, specName), newTasks being
\* parseTasks(newContent).tasks (not looked at when completedIds is empty).
applyCompletedIds(newContent, newTasks, completedIds) ==
    IF completedIds = {} THEN newContent
    ELSE ApplyLoop(newContent, newTasks, 1, completedIds)

(***************************************************************************)
(* validateTaskMarkdown                                                    *)
(***************************************************************************)

\* A TaskValidationIssue: line (0-based) and severity as in the code; the
\* message is kept as the rule that wrote it and the values it interpolates
\* (the marker, the id and the 1-based line of its first definition, the
\* trimmed body of the requires comment).
NewIssue(i, severity, rule) ==
    [line |-> i, severity |-> severity, rule |-> rule,
     marker |-> "", id |-> "", firstLine |-> 0, value |-> ""]

\* line.match(/^(\s*)-\s+\[(.{1})\]/): the bracket group of a checkbox line,
\* whatever its character.
MarkerMatch(line) ==
    LET s == TrimStart(line)
    IN  IF Len(s) >= 3 /\ s[1] = "-" /\ IsSpace(s[2])
        THEN LET t == SubSeq(s, 2, Len(s))
                 k == LeadSpaces(t)
             IN  IF k < Len(t) /\ t[k + 1] \in BracketToks
                 THEN [ok |-> TRUE, mark |-> t[k + 1]]
                 ELSE NoMatch
        ELSE NoMatch

\* Rule 1: a checkbox marker other than x, X or a space.
MarkerIssues(i, line) ==
    LET m == MarkerMatch(line)
    IN  IF m.ok /\ m.mark \notin Markers
        THEN <<[NewIssue(i, "error", "marker") EXCEPT !.marker = m.mark]>>
        ELSE <<>>

\* seenIds, a Map from id to line, as a set of pairs.
SeenHas(seen, id) == \E e \in seen : e.id = id
SeenGet(seen, id) == (CHOOSE e \in seen : e.id = id).line

\* Rule 2 fed with the second and later definitions only when they sit on
\* the line next to the first one.
DuplicateIssuesAdjacentOnly(i, line, seen) ==
    LET c == FirstIn(line, TaskIdComments)
    IN  IF c # 0 /\ SeenHas(seen, TaskIdOf(line[c]))
             /\ SeenGet(seen, TaskIdOf(line[c])) = i - 1
        THEN <<[NewIssue(i, "error", "duplicate")
                   EXCEPT !.id = TaskIdOf(line[c]),
                          !.firstLine = SeenGet(seen, TaskIdOf(line[c])) + 1]>>
        ELSE <<>>

\* Rule 2: the id of the line's first task comment was seen on an earlier
\* line.
DuplicateIssues(i, line, seen) ==
    LET c == FirstIn(line, TaskIdComments)
    IN  IF c # 0 /\ SeenHas(seen, TaskIdOf(line[c]))
        THEN <<[NewIssue(i, "error", "duplicate")
                   EXCEPT !.id = TaskIdOf(line[c]),
                          !.firstLine = SeenGet(seen, TaskIdOf(line[c])) + 1]>>
        ELSE <<>>

\* seenIds after the line: `else { seenIds.set(id, i) }`.
SeenAfter(i, line, seen) ==
    LET c == FirstIn(line, TaskIdComments)
    IN  IF c # 0 /\ ~SeenHas(seen, TaskIdOf(line[c]))
        THEN seen \cup {[id |-> TaskIdOf(line[c]), line |-> i]}
        ELSE seen

\* /<!--\s*requires?\s+:\s*(.+?)\s*-->/: the first "<!--" followed by the
\* key without its colon, spaces, ":" and a non-empty body up to a "-->".
BadRequiresMatch(s) ==
    LET ColonAt(p) ==
            LET t == SubSeq(s, p + 1, Len(s))
                k == LeadSpaces(t)
            IN  IF k < Len(t) /\ t[k + 1] \in BareRequiresKeys
                THEN LET u == SubSeq(t, k + 2, Len(t))
                         j == LeadSpaces(u)
                     IN  IF j >= 1 /\ j < Len(u) /\ u[j + 1] = ":"
                         THEN p + k + 1 + j + 1
                         ELSE 0
                ELSE 0
        EndAt(q) ==
            LET ends == {e \in (q + 2)..Len(s) :
                            /\ s[e] = "-->"
                            /\ \A i \in (q + 1)..(e - 1) : s[i] # "\r"}
            IN  IF ends = {} THEN 0 ELSE MinOf(ends)
        starts == {p \in 1..Len(s) :
                      /\ s[p] = "<!--"
                      /\ ColonAt(p) # 0
                      /\ EndAt(ColonAt(p)) # 0}
    IN  IF starts = {} THEN NoMatch
        ELSE LET p == MinOf(starts)
             IN  [ok |-> TRUE,
                  body |-> SubSeq(s, ColonAt(p) + 1, EndAt(ColonAt(p)) - 1)]

\* Rule 3: a requires comment with a space before its colon.
RequiresIssues(i, line) ==
    LET m == BadRequiresMatch(line)
    IN  IF m.ok
        THEN <<[NewIssue(i, "warning", "requires")
                   EXCEPT !.value = Concat(Trim(m.body))]>>
        ELSE <<>>

\* (line.match(/<!--/g) || []).length and (line.match(/-->/g) || []).length
OpenCount(line) == Cardinality({i \in 1..Len(line) : line[i] \in CommentToks})
CloseCount(line) ==
    Cardinality({i \in 1..Len(line) :
                    line[i] \in (CommentToks \ {"<!--"}) \cup {"-->"}})

\* Rule 4: more comment openings than closings on the line.
UnclosedIssues(i, line) ==
    IF OpenCount(line) > CloseCount(line)
    THEN <<NewIssue(i, "error", "unclosed")>>
    ELSE <<>>

\* The validator's loop variables before line 0.
ValidateInit ==
    [issues |-> <<>>, seenIds |-> {},
     inFrontmatter |-> FALSE, frontmatterDone |-> FALSE]

\* ValidateBodyLine with the malformed-requires rule run before the
\* duplicate-id rule.
ValidateBodyLineRequiresFirst(st, i, line) ==
    [st EXCEPT !.issues = st.issues \o MarkerIssues(i, line)
                             \o RequiresIssues(i, line)
                             \o DuplicateIssues(i, line, st.seenIds)
                             \o UnclosedIssues(i, line),
               !.seenIds = SeenAfter(i, line, st.seenIds)]

\* One iteration of the loop after the frontmatter block: the four rules in
\* the order of the code.
ValidateBodyLine(st, i, line) ==
    [st EXCEPT !.issues = st.issues \o MarkerIssues(i, line)
                             \o DuplicateIssues(i, line, st.seenIds)
                             \o RequiresIssues(i, line)
                             \o UnclosedIssues(i, line),
               !.seenIds = SeenAfter(i, line, st.seenIds)]

\* One iteration of the loop, frontmatter skipping included.
ValidateLine(st, i, raw) ==
    LET line == StripCR(raw)
        dashes == Trim(line) = <<"---">>
    IN  IF ~st.frontmatterDone /\ i = 0 /\ dashes
        THEN [st EXCEPT !.inFrontmatter = TRUE]
        ELSE IF InFrontmatterBlock(st)
        THEN IF dashes
             THEN [st EXCEPT !.inFrontmatter = FALSE, !.frontmatterDone = TRUE]
             ELSE st
        ELSE ValidateBodyLine([st EXCEPT !.frontmatterDone = TRUE], i, line)

\* The loop `for (let i = 0; i < lines.length; i++)`, from line i on.
RECURSIVE ValidateLoop(_, _, _)
ValidateLoop(lines, i, st) ==
    IF i >= Len(lines) THEN st
    ELSE ValidateLoop(lines, i + 1, ValidateLine(st, i, lines[i + 1]))

\* validateTaskMarkdown(content): the issues in the order they are pushed.
validateTaskMarkdown(lines) == ValidateLoop(lines, 0, ValidateInit).issues

(***************************************************************************)
(* Requirement-task cross-referencing (specLinks)                          *)
(***************************************************************************)

\* toLowerCase() on a token.
LowerTok(t) ==
    CASE t = "Session" -> "session"
      [] t = "REQ-1" -> "req-1"
      [] t = "ABC-1" -> "abc-1"
      [] t = "R2" -> "r2"
      [] t = "A" -> "a"
      [] t = "B" -> "b"
      [] t = "C" -> "c"
      [] OTHER -> t

\* The runs of letters and digits of a lower-case token; the tokens not
\* listed (spaces, commas, dashes, colons, line ends) hold none.  Words never
\* stand side by side in a text, so that the runs of a text are those of its
\* tokens.
AlnumRuns(t) ==
    CASE t \in TitleWords \cup {"a", "b", "c", "h", "s", "q", "txt", "req", "r2"}
            -> <<t>>
      [] t = "req-1" -> <<"req", "1">>
      [] t = "abc-1" -> <<"abc", "1">>
      [] OTHER -> <<>>

\* text.toLowerCase().split(/[^a-z0-9]+/), without the empty strings (no
\* filter below keeps them).
RECURSIVE TokenRuns(_)
TokenRuns(text) ==
    IF text = <<>> THEN <<>>
    ELSE AlnumRuns(LowerTok(text[1])) \o TokenRuns(Tail(text))

\* .slice(0, n)
Take(s, n) == SubSeq(s, 1, IF Len(s) < n THEN Len(s) ELSE n)

\* The stopwords, shortest length and number of keywords of
\* extractLinkKeywords and of extractKeywords.
LinkStopwords ==
    {"the", "and", "for", "with", "from", "into", "that", "this", "system",
     "shall", "must", "should", "user", "users", "requirement",
     "requirements", "task", "tasks", "feature", "functional",
     "nonfunctional", "create", "implement", "support", "provide", "allow",
     "include", "using"}
LinkKeywordMinLength == 5
LinkKeywordLimit == 8
TitleStopwords ==
    {"the", "and", "for", "with", "from", "into", "that", "this", "task",
     "implement", "implementation", "create", "add", "update", "basic",
     "core"}
TitleKeywordMinLength == 4
TitleKeywordLimit == 6

IsLinkKeyword(token) ==
    Len(token) >= LinkKeywordMinLength /\ token \notin LinkStopwords
IsTitleKeyword(token) ==
    Len(token) >= TitleKeywordMinLength /\ token \notin TitleStopwords

\* extractLinkKeywords(text)
extractLinkKeywords(text) ==
    Take(SelectSeq(TokenRuns(text), IsLinkKeyword), LinkKeywordLimit)

\* extractKeywords(title), the keywords linkExistingTaskToImplementation
\* looks for in file paths.
extractKeywords(title) ==
    Take(SelectSeq(TokenRuns(title), IsTitleKeyword), TitleKeywordLimit)

\* The task's keywords taken with extractKeywords.
TaskKeywordsWithExtractKeywords(task) == extractKeywords(task.title)

\* `const taskKeywords = extractLinkKeywords(task.title)`
TaskKeywords(task) == extractLinkKeywords(task.title)

\* requirementKeywords.filter((k) => taskKeywords.includes(k)).length
OverlapLength(requirementKeywords, taskKeywords) ==
    Len(SelectSeq(requirementKeywords,
                  LAMBDA k : \E i \in 1..Len(taskKeywords) : taskKeywords[i] = k))

MaxNum(a, b) == IF a >= b THEN a ELSE b

\* The thresholds: score >= 2, and, from 3 requirement keywords on,
\* ratio >= 0.4 (4 tenths).
MinScore == 2
RatioFromKeywords == 3
MinRatioTenths == 4

\* `{ task, score, ratio }`, the ratio kept as its two terms.
ScoreEntry(task, requirementKeywords, taskKeywords) ==
    [task |-> task,
     score |-> OverlapLength(requirementKeywords, taskKeywords),
     over |-> MaxNum(Len(requirementKeywords),
                     IF Len(taskKeywords) = 0 THEN 1 ELSE Len(taskKeywords))]

\* entry.ratio >= 0.4
RatioPasses(entry) == 10 * entry.score >= MinRatioTenths * entry.over

\* The filter of inferTasksForRequirement.
PassesFilter(entry, requirementKeywords) ==
    IF Len(requirementKeywords) >= RatioFromKeywords
    THEN entry.score >= MinScore /\ RatioPasses(entry)
    ELSE entry.score >= MinScore

\* a.task.id.localeCompare(b.task.id) on the ids of the documents: -1, 0, 1.
IdRank(id) ==
    CASE id = "A" -> 0
      [] id = "T1" -> 1
      [] id = "T2" -> 2
      [] id = "T3" -> 3
      [] id = "T4" -> 4
      [] id = "T5" -> 5
      [] OTHER -> 6
LocaleCompare(a, b) ==
    IF IdRank(a) < IdRank(b) THEN 0 - 1
    ELSE IF IdRank(a) > IdRank(b) THEN 1 ELSE 0

\* The comparator of the sort: negative when a comes first.
CompareEntries(a, b) ==
    IF b.score - a.score # 0 THEN b.score - a.score
    ELSE LocaleCompare(a.task.id, b.task.id)

\* Array.prototype.sort with the comparator (a stable sort).
SortEntries(entries) ==
    LET n == Len(entries)
        Pos(i) == 1 + Cardinality({j \in 1..n :
                         \/ CompareEntries(entries[j], entries[i]) < 0
                         \/ /\ CompareEntries(entries[j], entries[i]) = 0
                            /\ j < i})
    IN  [p \in 1..n |-> entries[CHOOSE i \in 1..n : Pos(i) = p]]

\* The entries of the tasks, their keywords given.
ScoreEntries(tasks, requirementKeywords, taskKeywords) ==
    [k \in 1..Len(tasks) |->
        ScoreEntry(tasks[k], requirementKeywords, taskKeywords[k])]

\* .filter(...).sort(...).map((entry) => entry.task)
RankedTasks(entries, requirementKeywords) ==
    LET kept == SortEntries(SelectSeq(entries,
                    LAMBDA e : PassesFilter(e, requirementKeywords)))
    IN  [k \in 1..Len(kept) |-> kept[k].task]

\* inferTasksForRequirement(block, tasks); block.defined is FALSE for
\* undefined.
inferTasksForRequirement(block, tasks) ==
    IF ~block.defined \/ Len(block.keywords) = 0 THEN <<>>
    ELSE RankedTasks(ScoreEntries(tasks, block.keywords,
                                  [k \in 1..Len(tasks) |-> TaskKeywords(tasks[k])]),
                     block.keywords)

\* The RequirementBlock buildRequirementBlocks makes for a requirement with
\* the title, and the block of a requirement that has none (undefined).
RequirementBlock(title) ==
    [defined |-> TRUE, title |-> title, keywords |-> extractLinkKeywords(title)]
NoBlock == [defined |-> FALSE, title |-> <<>>, keywords |-> <<>>]

\* normalizeRequirementId(value) of specLinks: trim, strip dashes,
\* asterisks, whitespace and colons from both ends, upper-case.
linkNormalizeRequirementId(value) ==
    LET ns == {i \in 1..Len(value) : value[i] \notin StripToks}
        core == IF ns = {} THEN <<>> ELSE SubSeq(value, MinOf(ns), MaxOf(ns))
    IN  Concat([i \in 1..Len(core) |-> UpperTok(core[i])])

\* The matches of a requirement-token pattern in a text, normalized, in
\* order: the tokens among toks between word boundaries.
RequirementTokenMatches(text, toks) ==
    LET hits == {i \in 1..Len(text) :
                    /\ text[i] \in toks
                    /\ (i > 1 => ~EndsWord(text[i - 1]))
                    /\ (i < Len(text) => ~StartsWord(text[i + 1]))}
        F[i \in 0..Len(text)] ==
            IF i = 0 THEN <<>>
            ELSE IF i \in hits
                 THEN Append(F[i - 1], linkNormalizeRequirementId(<<text[i]>>))
            ELSE F[i - 1]
    IN  F[Len(text)]

\* taskAddressesRequirement(task, normalizedRequirementId): one of the
\* task's requirementIds, or a match of
\* /\b([A-Z]+-\d+(?:\.\d+)*|R\d+)\b/gi in its title, normalizes to the id.
taskAddressesRequirement(task, normalizedRequirementId) ==
    \/ /\ task.requirementIds.defined
       /\ \E i \in 1..Len(task.requirementIds.ids) :
              linkNormalizeRequirementId(<<task.requirementIds.ids[i]>>)
                  = normalizedRequirementId
    \/ \E i \in DOMAIN RequirementTokenMatches(task.title, ReqIdToks) :
           RequirementTokenMatches(task.title, ReqIdToks)[i]
               = normalizedRequirementId

\* [...tasks].sort((a, b) => a.lineIndex - b.lineIndex) (a stable sort).
SortByLineIndex(tasks) ==
    LET n == Len(tasks)
        Pos(i) == 1 + Cardinality({j \in 1..n :
                         \/ tasks[j].lineIndex < tasks[i].lineIndex
                         \/ /\ tasks[j].lineIndex = tasks[i].lineIndex
                            /\ j < i})
    IN  [p \in 1..n |-> tasks[CHOOSE i \in 1..n : Pos(i) = p]]

\* lines.slice(start, end + 1).join("\n"), start and end 0-based.
RECURSIVE JoinLines(_, _, _)
JoinLines(lines, start, end) ==
    IF start > end \/ start >= Len(lines) THEN <<>>
    ELSE lines[start + 1]
         \o (IF start < end /\ start + 1 < Len(lines) THEN <<"\n">> ELSE <<>>)
         \o JoinLines(lines, start + 1, end)

\* buildTaskBlocks(content, tasks): for each task id the text from the
\* task's line to the line before the next task (the last task of an id
\* wins); sorted are the tasks by lineIndex.  The result is the text stored
\* for the id, "" when there is none.
TaskBlockOf(lines, sorted, id) ==
    LET owners == {i \in 1..Len(sorted) : sorted[i].id = id}
    IN  IF owners = {} THEN <<>>
        ELSE LET i == MaxOf(owners)
                 end == IF i + 1 <= Len(sorted)
                        THEN sorted[i + 1].lineIndex - 1
                        ELSE Len(lines) - 1
             IN  JoinLines(lines, sorted[i].lineIndex, end)

\* extractRequirementIdsFromText(text) of specLinks: the matches of
\* /\b((?:NFR|FR|REQ)-\d+(?:\.\d+)*|R\d+)\b/gi, normalized, without
\* repetitions.
linkExtractRequirementIdsFromText(text) ==
    Distinct(RequirementTokenMatches(text, LinkReqIdToks))

\* taskMentionsRequirement(task, normalizedRequirementId, taskBlocks), the
\* text of the task's block given.
taskMentionsRequirement(ids, normalizedRequirementId) ==
    \E i \in 1..Len(ids) : ids[i] = normalizedRequirementId

\* tasks.filter((task) => taskAddressesRequirement(task, reqId))
ExplicitTasks(tasks, reqId) ==
    SelectSeq(tasks, LAMBDA task : taskAddressesRequirement(task, reqId))

\* tasks.filter((task) => taskMentionsRequirement(task, reqId, taskBlocks))
\* with taskBlocks = buildTaskBlocks(content, tasks).
MentioningTasks(lines, tasks, sorted, reqId) ==
    SelectSeq(tasks, LAMBDA task :
        taskMentionsRequirement(
            linkExtractRequirementIdsFromText(TaskBlockOf(lines, sorted, task.id)),
            reqId))

\* The addressing tasks of provideRequirementsDocumentCodeLenses out of the
\* explicit tasks, the mentioning tasks and the requirement's block.
LensAddressingTasks(explicitTasks, mentioning, block, tasks) ==
    LET tasksByIdMention == IF Len(explicitTasks) = 0 THEN mentioning ELSE <<>>
        inferredTasks ==
            IF Len(explicitTasks) = 0 /\ Len(tasksByIdMention) = 0 /\ block.defined
            THEN inferTasksForRequirement(block, tasks)
            ELSE <<>>
    IN  IF Len(explicitTasks) > 0 THEN explicitTasks
        ELSE IF Len(tasksByIdMention) > 0 THEN tasksByIdMention
        ELSE inferredTasks

\* The results of the three strategies of openRequirementTasks together.
OpenAddressingTasksCombined(explicitTasks, mentioning, block, tasks) ==
    explicitTasks \o mentioning \o inferTasksForRequirement(block, tasks)

\* The addressing tasks of openRequirementTasks.
OpenAddressingTasks(explicitTasks, mentioning, block, tasks) ==
    IF Len(explicitTasks) = 0
    THEN IF Len(mentioning) = 0
         THEN IF block.defined THEN inferTasksForRequirement(block, tasks)
              ELSE mentioning
         ELSE mentioning
    ELSE explicitTasks

\* The task ids showRequirementTaskMap prints for a requirement.
MapAddressingTasks(explicitTasks, mentioning, block, tasks) ==
    LET addressing == explicitTasks
        fromText == IF Len(addressing) = 0 THEN mentioning ELSE <<>>
        inferred == IF Len(addressing) = 0 /\ Len(fromText) = 0
                    THEN inferTasksForRequirement(block, tasks)
                    ELSE <<>>
    IN  IF Len(addressing) > 0 THEN addressing
        ELSE IF Len(fromText) > 0 THEN fromText
        ELSE inferred

(***************************************************************************)
(* Documents                                                               *)
(***************************************************************************)

\* `- [m] title` behind an indentation.
CheckboxLine(indent, m, title) == indent \o <<"-", " ", m, " ">> \o title

\* `- [m] a`: a checkbox-style task.
TaskLines == {CheckboxLine(<<>>, m, <<"a">>) : m \in Markers}

\* `  - [m] s`: an indented checkbox line.
IndentedLines(marks) == {CheckboxLine(<<" ", " ">>, m, <<"s">>) : m \in marks}

\* `### h`: a heading-style task without inline checkbox.
HeadingLine == <<"###", " ", "h">>

\* `### - [m] h`: a heading-style task with an inline checkbox.
HeadingCheckboxLines(marks) ==
    {<<"###", " ">> \o CheckboxLine(<<>>, m, <<"h">>) : m \in marks}

\* `### - [m]`: a heading with an inline checkbox and no title yet.
UntitledHeadingLines == {<<"###", " ", "-", " ", m>> : m \in Markers}

\* `### h [b]`: a heading without inline checkbox whose title holds brackets.
HeadingBracketLines == {<<"###", " ", "h", " ", b>> : b \in {"[ ]", "[x]"}}

\* `- [X] a [b]`: a checkbox-style task whose title holds brackets.
TaskBracketLines ==
    {CheckboxLine(<<>>, "[X]", <<"a", " ", b>>) : b \in {"[ ]", "[x]"}}

\* `- [m] a <!-- task:T2 -->`: a checkbox-style task with an explicit id.
TaskIdLines ==
    {CheckboxLine(<<>>, m, <<"a", " ", "<!-- task:T2 -->">>) : m \in {"[ ]", "[x]"}}

\* `- [m] a` with a Windows line ending.
TaskCRLines == {CheckboxLine(<<>>, m, <<"a", "\r">>) : m \in {"[ ]", "[x]"}}

\* A line of plain text, and the frontmatter delimiter.
TextLine == <<"txt">>
DashesLine == <<"---">>

\* Lines that are neither task lines nor plain text: an empty line, a `##`
\* section heading, a blockquote, an HTML comment, dash and star bullets.
BlankLine == <<>>
SectionLine == <<"##", " ", "h">>
QuoteLine == <<">", " ", "q">>
NoteLine == <<"<!-- note -->">>
BulletLines == {<<"-", " ", "b">>, <<"*", " ", "b">>}

\* Task lines by the id forms they carry.  c.heading: `### ` or `- [ ] `;
\* c.comment: `<!-- task:A -->` before the title text ("front"), after it
\* ("back") or absent ("none"); c.bold: a leading `**B**: `; c.colon: a
\* `C: ` prefix.  E.g. `- [ ] <!-- task:A --> **B**: C: a`.
IdCases ==
    {c \in [heading : BOOLEAN, comment : {"none", "front", "back"},
            bold : BOOLEAN, colon : BOOLEAN] :
        ~(c.heading /\ c.comment = "front")}

BoldPrefix(c) == IF c.bold THEN <<"**", "B", "**", ":", " ">> ELSE <<>>

ColonPrefix(c) == IF c.colon THEN <<"C", ":", " ">> ELSE <<>>

IdLine(c) ==
    (IF c.heading THEN <<"###", " ">> ELSE <<"-", " ", "[ ]", " ">>)
    \o (IF c.comment = "front" THEN <<"<!-- task:A -->", " ">> ELSE <<>>)
    \o BoldPrefix(c) \o ColonPrefix(c) \o <<"a">>
    \o (IF c.comment = "back" THEN <<" ", "<!-- task:A -->">> ELSE <<>>)

IdLines ==
    {IdLine(c) : c \in IdCases}
    \cup {CheckboxLine(<<" ", " ">>, "[ ]", <<"s">>), DashesLine}

\* Task lines by their requirement linkage.  c.req: the entries of the
\* requires comment after the title text, or "none" for no comment; c.text:
\* the title text.  E.g. `- [ ] a R2 <!-- requires:-req-1, R2: -->`.
ReqCases ==
    {c \in [heading : BOOLEAN, req : {"none", "one", "two", "twice", "blank"},
            text : {"plain", "one", "twice"}] :
        c.heading => (c.text = "one" /\ c.req \in {"none", "one", "blank"})}

ReqEntries(c) ==
    CASE c.req = "one" -> <<"REQ-1">>
      [] c.req = "two" -> <<"-", "req-1", ",", " ", "R2", ":">>
      [] c.req = "twice" -> <<"REQ-1", ",", "req-1">>
      [] c.req = "blank" -> <<"-">>
      [] OTHER -> <<>>

ReqText(c) ==
    CASE c.text = "one" -> <<"a", " ", "R2">>
      [] c.text = "twice" -> <<"req-1", " ", "a", " ", "REQ-1">>
      [] OTHER -> <<"a">>

ReqLine(c) ==
    (IF c.heading THEN <<"###", " ">> ELSE <<"-", " ", "[ ]", " ">>)
    \o ReqText(c)
    \o (IF c.req = "none" THEN <<>>
        ELSE <<" ", "<!--", " ", "requires:">> \o ReqEntries(c) \o <<" ", "-->">>)

ReqLines == {ReqLine(c) : c \in ReqCases}

\* `<!-- files: GLOB -->`, the glob (spaces included) token by token.
FilesComment(glob) == <<"<!--", " ", "files:", " ">> \o glob \o <<" ", "-->">>

\* `---` lines as the code accepts them: bare, before a carriage return, and
\* indented.
DashesForms == {DashesLine, <<"---", "\r">>, <<" ", "---">>}

\* The lines of the frontmatter documents by what they are to produce in the
\* body: a task or subtask, an invalid-marker issue, a fileGlob, nothing.
FrontTaskLines == {CheckboxLine(<<>>, "[ ]", <<"a">>),
                   CheckboxLine(<<" ", " ">>, "[x]", <<"s">>)}
FrontBadLines == {CheckboxLine(<<>>, "[?]", <<"a">>)}
FrontFilesLines == {FilesComment(<<"src/**">>)}
FrontLines ==
    DashesForms \cup FrontTaskLines \cup FrontBadLines \cup FrontFilesLines
    \cup {TextLine}

\* Lines holding one files comment, by what stands before the comment
\* (nothing, a checkbox task, text), by the glob, and by whether spaces
\* surround the glob.
FilesCases ==
    {c \in [pre : {"none", "task", "text"}, glob : {"one", "two"},
            tight : BOOLEAN] :
        /\ c.pre # "none" => (c.glob = "one" /\ ~c.tight)
        /\ c.tight => c.glob = "one"}
GlobToks(c) == IF c.glob = "one" THEN <<"src/**">> ELSE <<"src/**", " ", "lib/*">>
FilesPrefix(c) ==
    CASE c.pre = "none" -> <<>>
      [] c.pre = "task" -> CheckboxLine(<<>>, "[ ]", <<"a", " ">>)
      [] c.pre = "text" -> <<"txt", " ">>
FilesLine(c) ==
    FilesPrefix(c)
    \o (IF c.tight THEN <<"<!--", "files:">> \o GlobToks(c) \o <<"-->">>
                   ELSE FilesComment(GlobToks(c)))
FilesLines ==
    {FilesLine(c) : c \in FilesCases}
    \cup {CheckboxLine(<<>>, "[ ]", <<"a">>), CheckboxLine(<<" ", " ">>, "[x]", <<"s">>),
          HeadingLine, TextLine, DashesLine}

\* The task-id comment of an id.
TaskIdComment(id) == IF id = "A" THEN "<!-- task:A -->" ELSE "<!-- task:T2 -->"

\* Checkbox lines by the ids of their task comments, in the order of the
\* line ("" for no comment; a second comment only after a first one).
DupCases ==
    {c \in [first : {"", "A", "T2"}, second : {"", "A", "T2"}] :
        /\ c.first = "" => c.second = ""
        /\ c.second # "" => (c.first = "A" /\ c.second = "T2")}
DupLine(c) ==
    CheckboxLine(<<>>, "[ ]", <<"a">>)
    \o (IF c.first = "" THEN <<>> ELSE <<" ", TaskIdComment(c.first)>>)
    \o (IF c.second = "" THEN <<>> ELSE <<" ", TaskIdComment(c.second)>>)
DupLines == {DupLine(c) : c \in DupCases} \cup {TextLine, DashesLine}

\* Checkbox lines by the rules of the validator they break: an invalid
\* marker, a task comment (a duplicate when an earlier line has one), a
\* requires comment with a space before its colon, an unclosed comment.
RuleCases == [bad : BOOLEAN, id : BOOLEAN, req : BOOLEAN, unclosed : BOOLEAN]
RuleLine(c) ==
    CheckboxLine(<<>>, IF c.bad THEN "[?]" ELSE "[ ]", <<"a">>)
    \o (IF c.id THEN <<" ", TaskIdComment("A")>> ELSE <<>>)
    \o (IF c.req
        THEN <<" ", "<!--", " ", "requires", " ", ":", " ", "REQ-1", " ", "-->">>
        ELSE <<>>)
    \o (IF c.unclosed THEN <<" ", "<!--">> ELSE <<>>)
RuleLines == {RuleLine(c) : c \in RuleCases}

\* Texts for extractRequirementIdsFromText: words, requirement ids in both
\* letter cases among them, joined by a separator.
TextWords == {"REQ-1", "req-1", "R2", "r2", "a", "req"}
TextSeparators == {" ", ","}
RECURSIVE JoinWords(_, _)
JoinWords(words, sep) ==
    IF Len(words) <= 1 THEN words
    ELSE <<words[1], sep>> \o JoinWords(Tail(words), sep)
Texts ==
    {JoinWords(w, sep) : w \in UNION {[1..n -> TextWords] : n \in 0..MaxWords},
                         sep \in TextSeparators}

\* Words joined by single spaces.
Spaced(words) == JoinWords(words, " ")

\* Titles of tasks for keyword inference, by name.
TaskTitleNames == {"two", "three", "page", "update", "six", "ten"}
TaskTitle(name) ==
    CASE name = "two" -> Spaced(<<"session", "token">>)
      [] name = "three" -> <<"Session", ",", " ", "token", "-", "login">>
      [] name = "page" -> Spaced(<<"login", "page">>)
      [] name = "update" -> Spaced(<<"update", "session">>)
      [] name = "six" ->
            Spaced(<<"alpha", "bravo", "delta", "hotel", "session", "token">>)
      [] name = "ten" ->
            Spaced(<<"alpha", "bravo", "delta", "hotel", "india", "recovery",
                     "login", "update", "session", "token">>)

\* Checkbox task lines with these titles, and one with an explicit id that
\* sorts before the automatic ones.
InferLine(name) == CheckboxLine(<<>>, "[ ]", TaskTitle(name))
InferLines ==
    {InferLine(name) : name \in TaskTitleNames}
    \cup {InferLine("two") \o <<" ", TaskIdComment("A")>>}

\* Titles of requirement blocks, by name ("none" has no keyword).
BlockTitleNames == {"two", "three", "one", "twice", "update", "five", "none"}
BlockTitle(name) ==
    CASE name = "two" -> Spaced(<<"session", "token">>)
      [] name = "three" -> Spaced(<<"session", "token", "login">>)
      [] name = "one" -> <<"token">>
      [] name = "twice" -> Spaced(<<"login", "and", "login", "recovery">>)
      [] name = "update" -> Spaced(<<"update", "session", "token">>)
      [] name = "five" ->
            Spaced(<<"session", "token", "delta", "hotel", "india">>)
      [] name = "none" -> <<"and">>

\* Lines of task documents for requirement-to-task resolution, by name: a
\* task linked by a requires comment, by its title, by neither, one whose
\* title holds a token only the title pattern takes, a text line and a subtask
\* mentioning requirements.
XrefLineNames == {"plain", "requires", "title", "other", "text", "sub"}
XrefLine(name) ==
    CASE name = "plain" -> CheckboxLine(<<>>, "[ ]", Spaced(<<"session", "token">>))
      [] name = "requires" ->
            CheckboxLine(<<>>, "[ ]", Spaced(<<"session", "token">>))
            \o <<" ", "<!--", " ", "requires:", "REQ-1", " ", "-->">>
      [] name = "title" -> CheckboxLine(<<>>, "[ ]", Spaced(<<"a", "r2">>))
      [] name = "other" -> CheckboxLine(<<>>, "[ ]", Spaced(<<"a", "ABC-1">>))
      [] name = "text" -> Spaced(<<"txt", "req-1">>)
      [] name = "sub" -> CheckboxLine(<<" ", " ">>, "[ ]", Spaced(<<"s", "R2">>))
XrefLines == {XrefLine(name) : name \in XrefLineNames}

\* The requirement ids looked up and the blocks they have.
XrefRequirementIds == {"REQ-1", "R2", "ABC-1"}
XrefBlocks ==
    {NoBlock, RequirementBlock(BlockTitle("two")),
     RequirementBlock(BlockTitle("five"))}

\* Lines of the documents two overlapping toggles work on.
RaceLines ==
    {CheckboxLine(<<>>, m, <<"a">>) : m \in {"[ ]", "[x]"}}
    \cup IndentedLines({"[ ]", "[x]"}) \cup {HeadingLine}

\* Lines of the documents autopilot runs on.
AutopilotLines ==
    {CheckboxLine(<<>>, m, <<"a">>) : m \in {"[ ]", "[x]"}}
    \cup IndentedLines({"[ ]"})

\* The lines of the documents each operation is run on.  Each set is closed
\* under the rewrites of the operation, so the documents an operation can
\* produce are among the documents it is run on.
ParseLines ==
    TaskLines \cup IndentedLines(Markers) \cup HeadingCheckboxLines(Markers)
    \cup UntitledHeadingLines \cup {HeadingLine, TextLine, DashesLine, <<>>}

SetLines ==
    TaskLines \cup IndentedLines({"[ ]", "[x]"}) \cup TaskBracketLines
    \cup TaskIdLines \cup TaskCRLines \cup {HeadingLine, DashesLine}

CascadeLines ==
    TaskLines \cup IndentedLines(Markers) \cup HeadingCheckboxLines(Markers)
    \cup HeadingBracketLines \cup {HeadingLine, TextLine}

ApplyLines ==
    TaskLines \cup IndentedLines({"[ ]", "[x]"})
    \cup HeadingCheckboxLines({"[ ]", "[x]"}) \cup HeadingBracketLines
    \cup TaskIdLines \cup {HeadingLine, TextLine}

CloseLines ==
    {HeadingLine, CheckboxLine(<<>>, "[ ]", <<"a">>),
     CheckboxLine(<<" ", " ">>, "[x]", <<"s">>),
     TextLine, DashesLine, BlankLine, SectionLine, QuoteLine, NoteLine}
    \cup BulletLines

AllLines ==
    {CheckboxLine(<<>>, m, <<"a">>) : m \in {"[ ]", "[x]"}}
    \cup IndentedLines({"[ ]", "[x]"}) \cup TaskIdLines
    \cup {HeadingLine, TextLine}

\* The documents over a set of lines: 1 to MaxLines lines (split never
\* returns an empty array).
DocsOver(L) == UNION {[1..n -> L] : n \in 1..MaxLines}

\* The ids of a task list.
TaskIds(tasks) == {tasks[k].id : k \in 1..Len(tasks)}

\* An id no task of any document carries.
MissingId == "ZZ"

\* The task ids a caller passes: those of the document and one absent id.
ArgIds(tasks) == TaskIds(tasks) \cup {MissingId}

(***************************************************************************)
(* The operations.  A behaviour is one call of one operation on an         *)
(* arbitrary stored document: content is the file, input the text the call *)
(* worked on, op what was called.                                          *)
(***************************************************************************)

NoOp == [kind |-> "none"]

\* No operation has been called yet.
Idle == op = NoOp

InitOver(L) ==
    /\ content \in DocsOver(L)
    /\ input = content
    /\ op = NoOp

\* loadTasks: read the file and parse it.
LoadTasks ==
    /\ Idle
    /\ input' = content
    /\ op' = LET r == parseTasks(content)
             IN  [kind |-> "loadTasks", tasks |-> r.tasks, fileGlob |-> r.fileGlob]
    /\ UNCHANGED content

\* extractRequirementIdsFromText(text) on a one-line text.
ExtractRequirementIdsFromText ==
    /\ Idle
    /\ Len(content) = 1
    /\ input' = content
    /\ op' = [kind |-> "extractRequirementIdsFromText",
              ids |-> extractRequirementIdsFromText(content[1])]
    /\ UNCHANGED content

\* The requirement blocks an inference is asked for.
Blocks == {RequirementBlock(BlockTitle(name)) : name \in BlockTitleNames}
          \cup {NoBlock}

\* inferTasksForRequirement(block, tasks) on the tasks of the stored text;
\* taskKeywords are the keywords it takes from each task.
InferTasksForRequirement(block, tasks) ==
    /\ Idle
    /\ input' = content
    /\ op' = [kind |-> "inferTasksForRequirement", block |-> block,
              tasks |-> tasks,
              taskKeywords |-> [k \in 1..Len(tasks) |-> TaskKeywords(tasks[k])],
              result |-> inferTasksForRequirement(block, tasks)]
    /\ UNCHANGED content

\* The record of a resolution of a requirement id to the ids of its
\* addressing tasks.
Resolution(kind, reqId, block, tasks, addressing) ==
    [kind |-> kind, reqId |-> reqId, block |-> block, tasks |-> tasks,
     addressing |-> [k \in 1..Len(addressing) |-> addressing[k].id]]

\* provideRequirementsDocumentCodeLenses for one requirement id of the
\* requirements document: the tasks named in its lens.
ProvideRequirementsDocumentCodeLenses(reqId, block, tasks) ==
    /\ Idle
    /\ input' = content
    /\ op' = Resolution("provideRequirementsDocumentCodeLenses", reqId, block,
                        tasks,
                        LensAddressingTasks(
                            ExplicitTasks(tasks, reqId),
                            MentioningTasks(content, tasks,
                                            SortByLineIndex(tasks), reqId),
                            block, tasks))
    /\ UNCHANGED content

\* openRequirementTasks(specName, requirementId): the tasks offered.
OpenRequirementTasks(reqId, block, tasks) ==
    /\ Idle
    /\ input' = content
    /\ op' = Resolution("openRequirementTasks", reqId, block, tasks,
                        OpenAddressingTasks(
                            ExplicitTasks(tasks, reqId),
                            MentioningTasks(content, tasks,
                                            SortByLineIndex(tasks), reqId),
                            block, tasks))
    /\ UNCHANGED content

\* showRequirementTaskMap for one requirement id: the tasks printed.
ShowRequirementTaskMap(reqId, block, tasks) ==
    /\ Idle
    /\ input' = content
    /\ op' = Resolution("showRequirementTaskMap", reqId, block, tasks,
                        MapAddressingTasks(
                            ExplicitTasks(tasks, reqId),
                            MentioningTasks(content, tasks,
                                            SortByLineIndex(tasks), reqId),
                            block, tasks))
    /\ UNCHANGED content

\* A call of a toggle that has not read the file yet.  pc is the await the
\* call stands at ("read": readTextFile pending, "write": writeTextFile
\* pending, "done": returned), text the lines it passes to writeTextFile,
\* fresh whether its read returned before any write of the other call.
NewToggle(fn, taskId, completed) ==
    [fn |-> fn, taskId |-> taskId, completed |-> completed, pc |-> "read",
     text |-> <<>>, fresh |-> FALSE]

\* Two commands call toggles on the same tasks file, the second before the
\* first has returned.
StartToggles(first, second) ==
    /\ Idle
    /\ input' = content
    /\ op' = [kind |-> "toggles", calls |-> <<first, second>>, last |-> 0]
    /\ UNCHANGED content

\* `await readTextFile(uri)` of call p returns; the call splits, parses
\* (tasks), returns when the task is missing, rewrites, and calls
\* writeTextFile.
ToggleReads(p, tasks) ==
    /\ op.kind = "toggles"
    /\ op.calls[p].pc = "read"
    /\ LET call == op.calls[p]
           r == ToggleText(call.fn, content, tasks, call.taskId, call.completed)
       IN  op' = [op EXCEPT !.calls[p].pc = IF r.wrote THEN "write" ELSE "done",
                            !.calls[p].text = r.lines,
                            !.calls[p].fresh = (op.last = 0)]
    /\ UNCHANGED <<content, input>>

\* `await writeTextFile(...)` of call p lands and the call returns.
ToggleWrites(p) ==
    /\ op.kind = "toggles"
    /\ op.calls[p].pc = "write"
    /\ content' = TextToWrite(content, op.calls[p])
    /\ op' = [op EXCEPT !.calls[p].pc = "done", !.last = p]
    /\ UNCHANGED input

\* The state of automatic linking after activation: autoLinkTimer (0:
\* undefined), autoLinkRunning, autoLinkQueued; pending are the timers set and
\* neither fired nor cleared, created the number of timers set so far,
\* triggers the number of triggers so far, runs the calls of
\* linkExistingTaskToImplementation in progress, event the last step.
AutoLinkInit ==
    [kind |-> "autoLink", autoLinkTimer |-> 0, autoLinkRunning |-> FALSE,
     autoLinkQueued |-> FALSE, pending |-> {}, created |-> 0, triggers |-> 0,
     runs |-> 0, event |-> "activate"]

\* scheduleAutoLink(): clear the timer of autoLinkTimer, set a new one.
scheduleAutoLink(st) ==
    [st EXCEPT !.pending = (@ \ {st.autoLinkTimer}) \cup {st.created + 1},
               !.autoLinkTimer = st.created + 1,
               !.created = @ + 1]

\* runAutoLink started whether or not a run is in progress.
runAutoLinkUnguarded(st) ==
    [st EXCEPT !.autoLinkRunning = TRUE, !.runs = @ + 1]

\* runAutoLink() up to its await: set the queued flag and return when a run
\* is in progress, otherwise set the running flag and call
\* linkExistingTaskToImplementation.
runAutoLink(st) ==
    IF st.autoLinkRunning THEN [st EXCEPT !.autoLinkQueued = TRUE]
    ELSE [st EXCEPT !.autoLinkRunning = TRUE, !.runs = @ + 1]

\* The `finally` of runAutoLink.
runAutoLinkFinally(st) ==
    IF st.autoLinkQueued
    THEN scheduleAutoLink([st EXCEPT !.autoLinkRunning = FALSE,
                                    !.autoLinkQueued = FALSE])
    ELSE [st EXCEPT !.autoLinkRunning = FALSE]

\* activate(): the timer and the two flags are declared.
Activate ==
    /\ Idle
    /\ input' = content
    /\ op' = AutoLinkInit
    /\ UNCHANGED content

\* A watcher event under the specs directory or a saved document calls
\* scheduleAutoLink.
AutoLinkTrigger ==
    /\ op.kind = "autoLink"
    /\ op.triggers < MaxTriggers
    /\ op' = [scheduleAutoLink(op) EXCEPT !.triggers = @ + 1,
                                          !.event = "trigger"]
    /\ UNCHANGED <<content, input>>

\* A timer fires after 1200 ms: `void runAutoLink()`.
AutoLinkTimerFires ==
    /\ op.kind = "autoLink"
    /\ \E t \in op.pending :
           op' = [runAutoLink([op EXCEPT !.pending = @ \ {t}])
                     EXCEPT !.event = "fire"]
    /\ UNCHANGED <<content, input>>

\* linkExistingTaskToImplementation returns or throws: catch and finally of
\* runAutoLink.
AutoLinkRunEnds(outcome) ==
    /\ op.kind = "autoLink"
    /\ op.runs > 0
    /\ op' = [runAutoLinkFinally([op EXCEPT !.runs = @ - 1])
                 EXCEPT !.event = outcome]
    /\ UNCHANGED <<content, input>>

\* tasks.filter((t) => !t.completed), as ids.
PendingIds(tasks) ==
    LET pending == SelectSeq(tasks, LAMBDA t : ~t.completed)
    IN  [k \in 1..Len(pending) |-> pending[k].id]

\* The answers to the prompt of a task: the three buttons, and undefined
\* when it is dismissed.
PromptActions == {"Apply & Complete", "Mark Complete Only", "Skip", "undefined"}

\* Whether executeTask goes on to markTaskAndSubtasksCompleted after the
\* prompt: `if (action === "Skip") { return; }`.
MarksAfterPrompt(action) == action # "Skip"

\* runAutopilot up to the progress loop: the tasks are loaded, some are
\* pending and the user chose `Run Autopilot`.  i is the loop index, pc the
\* await the run stands at, cancelled cancelToken.isCancellationRequested,
\* chosen the ids whose prompt was answered `Apply & Complete` or `Mark
\* Complete Only`, event what the last executeTask ended with.
RunAutopilot(tasks, confirmEach) ==
    /\ Idle
    /\ Len(PendingIds(tasks)) > 0
    /\ input' = content
    /\ op' = [kind |-> "autopilot", confirmEach |-> confirmEach,
              pending |-> PendingIds(tasks), i |-> 0, pc |-> "loop",
              cancelled |-> FALSE, chosen |-> {}, startedCancelled |-> FALSE,
              event |-> "none"]
    /\ UNCHANGED content

\* The user cancels the progress notification.
AutopilotCancel ==
    /\ op.kind = "autopilot"
    /\ op.pc # "done"
    /\ ~op.cancelled
    /\ op' = [op EXCEPT !.cancelled = TRUE]
    /\ UNCHANGED <<content, input>>

\* The head of the loop: leave it at the end of pending or on cancellation,
\* otherwise call executeTask for pending[i].
AutopilotLoop ==
    /\ op.kind = "autopilot"
    /\ op.pc = "loop"
    /\ op' = IF op.i >= Len(op.pending) \/ op.cancelled
             THEN [op EXCEPT !.pc = "done"]
             ELSE [op EXCEPT !.pc = "model",
                             !.startedCancelled = @ \/ op.cancelled]
    /\ UNCHANGED <<content, input>>

\* executeTask returns without marking (ended names why) and the loop goes
\* on to the next index.
ExecuteTaskReturns(ended) ==
    /\ op' = [op EXCEPT !.pc = "loop", !.i = @ + 1, !.event = ended]
    /\ UNCHANGED <<content, input>>

\* executeTask marks the task and its subtasks complete and returns (tasks
\* are the tasks of the file as markTaskAndSubtasksCompleted reads it).
ExecuteTaskMarks(tasks, ended, chosen) ==
    /\ content' = CascadeText(content, tasks, op.pending[op.i + 1], TRUE).lines
    /\ op' = [op EXCEPT !.pc = "loop", !.i = @ + 1, !.event = ended,
                        !.chosen = @ \cup chosen]
    /\ UNCHANGED input

\* executeTask from the model selection to the end of the response: no
\* model, a failed request, or a response; after a response the
\* cancellation test, and without confirmation the edit and the marking.
AutopilotModel(result, tasks) ==
    /\ op.kind = "autopilot"
    /\ op.pc = "model"
    /\ IF result = "no model" \/ result = "request failed"
       THEN ExecuteTaskReturns(result)
       ELSE IF op.cancelled THEN ExecuteTaskReturns("cancelled")
       ELSE IF op.confirmEach
       THEN op' = [op EXCEPT !.pc = "prompt"] /\ UNCHANGED <<content, input>>
       ELSE ExecuteTaskMarks(tasks, "unconfirmed", {})

\* The user answers the prompt of the task, or dismisses it.
AutopilotPrompt(action, tasks) ==
    /\ op.kind = "autopilot"
    /\ op.pc = "prompt"
    /\ IF MarksAfterPrompt(action)
       THEN ExecuteTaskMarks(tasks, action,
                IF action \in {"Apply & Complete", "Mark Complete Only"}
                THEN {op.pending[op.i + 1]} ELSE {})
       ELSE ExecuteTaskReturns(action)

\* validateTaskMarkdown(content) on the stored text: the issues found.
ValidateTaskMarkdown ==
    /\ Idle
    /\ input' = content
    /\ op' = [kind |-> "validateTaskMarkdown",
              issues |-> validateTaskMarkdown(content)]
    /\ UNCHANGED content

\* setTaskCompleted(specName, taskId, completed): read, parse (tasks), rewrite
\* the task's line, write.
SetTaskCompleted(tasks, taskId, completed) ==
    LET r == SetCompletedText(content, tasks, taskId, completed)
    IN  /\ Idle
        /\ input' = content
        /\ content' = r.lines
        /\ op' = [kind |-> "setTaskCompleted", taskId |-> taskId,
                  completed |-> completed, wrote |-> r.wrote]

\* markTaskAndSubtasksCompleted(specName, taskId, completed): read, parse
\* (tasks), rewrite the task's line and its subtasks' lines, write.
MarkTaskAndSubtasksCompleted(tasks, taskId, completed) ==
    LET r == CascadeText(content, tasks, taskId, completed)
    IN  /\ Idle
        /\ input' = content
        /\ content' = r.lines
        /\ op' = [kind |-> "markTaskAndSubtasksCompleted", taskId |-> taskId,
                  completed |-> completed, wrote |-> r.wrote]

\* applyCompletedIds on the text about to be written as the tasks file.
ApplyCompletedIds(tasks, completedIds) ==
    /\ Idle
    /\ input' = content
    /\ content' = applyCompletedIds(content, tasks, completedIds)
    /\ op' = [kind |-> "applyCompletedIds", completedIds |-> completedIds]

\* Documents over FrontLines, and the same behind an opening `---` line.
InitFront ==
    /\ content \in DocsOver(FrontLines)
                    \cup {<<DashesLine>> \o d : d \in DocsOver(FrontLines)}
    /\ input = content
    /\ op = NoOp

\* One-line documents holding a text of Texts.
InitTexts ==
    /\ content \in {<<t>> : t \in Texts}
    /\ input = content
    /\ op = NoOp

NextParse == LoadTasks

NextExtract == ExtractRequirementIdsFromText

NextInfer ==
    /\ Idle
    /\ \E tasks \in {parseTasks(content).tasks}, block \in Blocks :
           InferTasksForRequirement(block, tasks)

SpecInfer == InitOver(InferLines) /\ [][NextInfer]_vars

\* Two toggles for different task ids of the document, and their steps.
NextToggles ==
    \/ /\ Idle
       /\ \E tasks \in {parseTasks(content).tasks} :
              \E k, l \in 1..Len(tasks), first, second \in ToggleCalls :
                  /\ k < l
                  /\ tasks[k].id # tasks[l].id
                  /\ StartToggles(
                         NewToggle(first[1], tasks[k].id, first[2]),
                         NewToggle(second[1], tasks[l].id, second[2]))
    \/ /\ op.kind = "toggles"
       /\ \E p \in 1..2 :
              \/ ToggleReads(p, parseTasks(content).tasks)
              \/ ToggleWrites(p)

SpecToggles == InitOver(RaceLines) /\ [][NextToggles]_vars

NextAutoLink ==
    \/ Activate
    \/ AutoLinkTrigger
    \/ AutoLinkTimerFires
    \/ \E outcome \in {"returned", "threw"} : AutoLinkRunEnds(outcome)

SpecAutoLink == InitOver({TextLine}) /\ [][NextAutoLink]_vars

NextAutopilot ==
    \/ /\ Idle
       /\ \E tasks \in {parseTasks(content).tasks}, confirmEach \in BOOLEAN :
              RunAutopilot(tasks, confirmEach)
    \/ /\ op.kind = "autopilot"
       /\ \/ AutopilotCancel
          \/ AutopilotLoop
          \/ \E result \in {"no model", "request failed", "response"} :
                 AutopilotModel(result, parseTasks(content).tasks)
          \/ \E action \in PromptActions :
                 AutopilotPrompt(action, parseTasks(content).tasks)

SpecAutopilot == InitOver(AutopilotLines) /\ [][NextAutopilot]_vars

NextXref ==
    /\ Idle
    /\ \E tasks \in {parseTasks(content).tasks},
          reqId \in XrefRequirementIds, block \in XrefBlocks :
           \/ ProvideRequirementsDocumentCodeLenses(reqId, block, tasks)
           \/ OpenRequirementTasks(reqId, block, tasks)
           \/ ShowRequirementTaskMap(reqId, block, tasks)

SpecXref == InitOver(XrefLines) /\ [][NextXref]_vars

SpecExtract == InitTexts /\ [][NextExtract]_vars

NextValidate == ValidateTaskMarkdown

NextSet ==
    LET tasks == parseTasks(content).tasks
    IN  \E t \in ArgIds(tasks), c \in BOOLEAN : SetTaskCompleted(tasks, t, c)

NextCascade ==
    LET tasks == parseTasks(content).tasks
    IN  \E t \in ArgIds(tasks), c \in BOOLEAN :
            MarkTaskAndSubtasksCompleted(tasks, t, c)

NextApply ==
    LET tasks == parseTasks(content).tasks
    IN  \E S \in SUBSET ArgIds(tasks) : ApplyCompletedIds(tasks, S)

Next ==
    NextParse \/ NextValidate \/ NextExtract \/ NextInfer \/ NextXref
    \/ NextToggles \/ NextAutoLink \/ NextAutopilot \/ NextSet
    \/ NextCascade \/ NextApply

Spec == InitOver(AllLines) /\ [][Next]_vars

SpecOneToggle == InitOver(AllLines) /\ [][NextSet \/ NextCascade]_vars

SpecParse == InitOver(ParseLines) /\ [][NextParse]_vars

SpecSet == InitOver(SetLines) /\ [][NextSet]_vars

SpecCascade == InitOver(CascadeLines) /\ [][NextCascade]_vars

SpecApply == InitOver(ApplyLines) /\ [][NextApply]_vars

SpecClose == InitOver(CloseLines) /\ [][NextParse]_vars

SpecIds == InitOver(IdLines) /\ [][NextParse]_vars

SpecReq == InitOver(ReqLines) /\ [][NextParse]_vars

SpecFiles == InitOver(FilesLines) /\ [][NextParse]_vars

SpecDup == InitOver(DupLines) /\ [][NextValidate]_vars

SpecRules == InitOver(RuleLines) /\ [][NextValidate]_vars

NextFront == NextParse \/ NextValidate

SpecFront == InitFront /\ [][NextFront]_vars

(***************************************************************************)
(* Properties                                                              *)
(***************************************************************************)

\* The line of the text the operation worked on that defines a task.
DefiningLine(task) == input[task.lineIndex + 1]

\* A line starting with `###`.
IsHeadingStyle(line) == Len(line) > 0 /\ line[1] = "###"

\* A line whose first non-blank character is the dash of a checkbox.
IsCheckboxStyle(line) ==
    LET t == TrimStart(line) IN Len(t) > 0 /\ t[1] = "-"

\* A `###` line with `- [ ]`, `- [x]` or `- [X]` right after the prefix.
CarriesInlineCheckbox(line) == HeadingCheckboxTest(line, Markers)

\* The first bracket group of a line: the marker of a checkbox line.
OwnMarker(line) == line[FirstIn(line, Markers)]

\* The logical AND of the subtasks' completed values.
SubTasksAnd(task) == \A j \in 1..Len(task.subTasks) : task.subTasks[j].completed

\* The tasks of the text the operation worked on, and of the text it left.
InputTasks == parseTasks(input).tasks
OutputTasks == parseTasks(content).tasks

\* A document all of whose lines are checkbox lines.
CheckboxOnly(lines) ==
    \A i \in 1..Len(lines) : TaskLineMatch(StripCR(lines[i])).ok

\* The line positions (1-based) of a task's subtasks.
SubTaskLines(task) ==
    {task.subTasks[j].lineIndex + 1 : j \in 1..Len(task.subTasks)}

IsToggle == op.kind \in {"setTaskCompleted", "markTaskAndSubtasksCompleted"}

\* C1: on a checkbox-only document, after setTaskCompleted(t, true) for a task
\* id t of the document, the task with id t parses as completed, and a second
\* setTaskCompleted(t, true) on the result leaves the text as it is.
C1_SetCompletedTrueThenIdempotent ==
    (/\ op.kind = "setTaskCompleted" /\ op.completed
     /\ CheckboxOnly(input)
     /\ op.taskId \in TaskIds(InputTasks)) =>
        LET after == OutputTasks
            k == FindTask(after, op.taskId)
        IN  /\ k # 0
            /\ after[k].completed
            /\ SetCompletedText(content, after, op.taskId, TRUE).lines = content

\* C1 witness: setTaskCompleted(t, true) has checked an unchecked task of a
\* checkbox-only document of several lines.
C1_Witness ==
    /\ op.kind = "setTaskCompleted" /\ op.completed
    /\ CheckboxOnly(input) /\ Len(input) > 1
    /\ op.taskId \in TaskIds(InputTasks)
    /\ ~InputTasks[FindTask(InputTasks, op.taskId)].completed
    /\ content # input

\* C2: a toggle (single or cascading) for an id no task of the document
\* carries leaves the stored text as it was and writes nothing.
C2_MissingIdIsNoOp ==
    IsToggle =>
        (op.taskId \notin TaskIds(InputTasks) => (content = input /\ ~op.wrote))

\* C2 witness: the cascading toggle was called with an absent id on a
\* document that has a task with a subtask.
C2_Witness ==
    /\ op.kind = "markTaskAndSubtasksCompleted"
    /\ op.taskId \notin TaskIds(InputTasks)
    /\ \E k \in 1..Len(InputTasks) : Len(InputTasks[k].subTasks) > 0

\* C3: setTaskCompleted keeps the number of lines and every line other than
\* the defining line of the first task with the id.
C3_SetTouchesOnlyDefiningLine ==
    op.kind = "setTaskCompleted" =>
        LET before == InputTasks
            k == FindTask(before, op.taskId)
            own == IF k = 0 THEN {} ELSE {before[k].lineIndex + 1}
        IN  /\ Len(content) = Len(input)
            /\ \A i \in 1..Len(input) : i \notin own => content[i] = input[i]

\* C3 witness: setTaskCompleted changed the line of a task that has a subtask
\* in the other state, in a document with a line ending in a carriage return.
C3_Witness ==
    /\ op.kind = "setTaskCompleted" /\ op.wrote /\ content # input
    /\ LET task == InputTasks[FindTask(InputTasks, op.taskId)]
       IN  /\ Len(task.subTasks) > 0
           /\ task.subTasks[1].completed # op.completed
    /\ \E i \in 1..Len(input) : input[i][Len(input[i])] = "\r"

\* C4: after setTaskCompleted(t, c) on a checkbox-style task, whatever its
\* marker ([ ], [x] or [X]), the marker on its line is the one for c and the
\* task parses with completed = c.
C4_SetCompletedAnyMarkerCase ==
    (/\ op.kind = "setTaskCompleted"
     /\ op.taskId \in TaskIds(InputTasks)
     /\ IsCheckboxStyle(DefiningLine(InputTasks[FindTask(InputTasks, op.taskId)]))) =>
        LET task == InputTasks[FindTask(InputTasks, op.taskId)]
            k == FindTask(OutputTasks, op.taskId)
        IN  /\ OwnMarker(content[task.lineIndex + 1]) = NewMark(op.completed)
            /\ k # 0
            /\ OutputTasks[k].completed = op.completed

\* C5: after the cascading toggle with c, every subtask of the task parses
\* with completed = c, and so does the task when it is checkbox-style, a
\* heading with inline checkbox, or a heading with at least one subtask.
C5_CascadeSetsTaskAndSubtasks ==
    (/\ op.kind = "markTaskAndSubtasksCompleted"
     /\ op.taskId \in TaskIds(InputTasks)) =>
        LET task == InputTasks[FindTask(InputTasks, op.taskId)]
            line == DefiningLine(task)
            k == FindTask(OutputTasks, op.taskId)
        IN  /\ k # 0
            /\ Len(OutputTasks[k].subTasks) = Len(task.subTasks)
            /\ \A j \in 1..Len(OutputTasks[k].subTasks) :
                   OutputTasks[k].subTasks[j].completed = op.completed
            /\ (\/ IsCheckboxStyle(line)
                \/ CarriesInlineCheckbox(line)
                \/ (IsHeadingStyle(line) /\ Len(task.subTasks) > 0)) =>
                   OutputTasks[k].completed = op.completed

\* C6: the cascading toggle keeps the number of lines, changes no line other
\* than the task's defining line and its subtasks' lines, and leaves a `###`
\* line without `- [ ]`/`- [x]` checkbox as it is.
C6_CascadeFrame ==
    op.kind = "markTaskAndSubtasksCompleted" =>
        LET before == InputTasks
            k == FindTask(before, op.taskId)
            own == IF k = 0 THEN {} ELSE {before[k].lineIndex + 1}
            subs == IF k = 0 THEN {} ELSE SubTaskLines(before[k])
        IN  /\ Len(content) = Len(input)
            /\ \A i \in 1..Len(input) :
                   content[i] # input[i] => i \in own \cup subs
            /\ \A i \in 1..Len(input) :
                   (/\ i \in own
                    /\ IsHeadingStyle(input[i])
                    /\ ~HeadingCheckboxTest(input[i], {"[ ]", "[x]"})) =>
                       content[i] = input[i]

\* C6 witness: the cascading toggle rewrote a subtask of a heading task whose
\* line has no inline checkbox but holds brackets in its title.
C6_Witness ==
    /\ op.kind = "markTaskAndSubtasksCompleted" /\ op.wrote /\ content # input
    /\ LET task == InputTasks[FindTask(InputTasks, op.taskId)]
       IN  /\ DefiningLine(task) \in HeadingBracketLines
           /\ Len(task.subTasks) > 0

\* C7: every task of applyCompletedIds(D, S) whose id is in S parses as
\* completed, checkbox-style or heading-style.
C7_ApplyCompletesListedTasks ==
    op.kind = "applyCompletedIds" =>
        \A k \in 1..Len(OutputTasks) :
            OutputTasks[k].id \in op.completedIds => OutputTasks[k].completed

\* C8: applyCompletedIds(D, S) changes only defining lines of tasks whose id
\* is in S and that parse as not completed in D, turns no checked bracket
\* group into an unchecked one, and returns D itself when S is empty.
C8_ApplyFrame ==
    op.kind = "applyCompletedIds" =>
        /\ Len(content) = Len(input)
        /\ LET before == InputTasks
               open == {before[k].lineIndex + 1 : k \in
                           {n \in 1..Len(before) : /\ before[n].id \in op.completedIds
                                                   /\ ~before[n].completed}}
           IN  \A i \in 1..Len(input) : content[i] # input[i] => i \in open
        /\ \A i \in 1..Len(input) :
               /\ Len(content[i]) = Len(input[i])
               /\ \A j \in 1..Len(input[i]) :
                      IsChecked(input[i][j]) => content[i][j] = input[i][j]
        /\ (op.completedIds = {} => content = input)

\* C8 witness: applyCompletedIds checked a listed task and left an unlisted,
\* uncompleted task of the same document alone.
C8_Witness ==
    /\ op.kind = "applyCompletedIds" /\ content # input
    /\ \E k \in 1..Len(InputTasks) :
           /\ InputTasks[k].id \notin op.completedIds
           /\ ~InputTasks[k].completed
           /\ content[InputTasks[k].lineIndex + 1] = input[InputTasks[k].lineIndex + 1]

\* The number of leading lines the frontmatter block takes: 0 when line 0 is
\* not `---`, else up to and including the next `---` line (all lines when
\* the block is never closed).
IsDashes(line) == Trim(StripCR(line)) = <<"---">>

FrontmatterLen(lines) ==
    IF Len(lines) = 0 \/ ~IsDashes(lines[1]) THEN 0
    ELSE LET ends == {i \in 2..Len(lines) : IsDashes(lines[i])}
         IN  IF ends = {} THEN Len(lines) ELSE MinOf(ends)

\* The positions (1-based) of the body lines of a document.
BodyLines(lines) == (FrontmatterLen(lines) + 1)..Len(lines)

HoldsFilesComment(line) == FilesMatch(StripCR(line)).ok

\* A `###` task line, a checkbox line (`- [ ]`, `- [x]`, `- [X]` followed by
\* text), and a closing line: non-blank text starting with none of `#`, `>`,
\* `<!--`, `-`, `*`.  A line holding the files comment is none of them.
IsHeadingTaskLine(line) ==
    HeadingTaskMatch(StripCR(line)).ok /\ ~HoldsFilesComment(line)

IsCheckboxLine(line) ==
    TaskLineMatch(StripCR(line)).ok /\ ~HoldsFilesComment(line)

IsClosingLine(line) ==
    ClosesTask(StripCR(line)) /\ ~HoldsFilesComment(line)

\* The lines (1-based) of the subtasks of the task defined on line i, and the
\* lines that define tasks.
SubTaskLinesOfLine(tasks, i) ==
    UNION {SubTaskLines(tasks[k]) : k \in {n \in 1..Len(tasks) : tasks[n].lineIndex + 1 = i}}

TaskDefLines(tasks) == {tasks[k].lineIndex + 1 : k \in 1..Len(tasks)}

\* C11: every checkbox line after a `###` task line, with no closing line and
\* no other `###` task line in between, is a subtask of that heading task and
\* opens no top-level task, whatever its indentation; subtasks are kept in
\* document order.
C11_HeadingAbsorbsCheckboxLines ==
    op.kind = "loadTasks" =>
        /\ \A i \in BodyLines(input), j \in BodyLines(input) :
               (/\ i < j
                /\ IsHeadingTaskLine(input[i])
                /\ IsCheckboxLine(input[j])
                /\ \A m \in (i + 1)..(j - 1) :
                       ~IsClosingLine(input[m]) /\ ~IsHeadingTaskLine(input[m])) =>
                   /\ j \in SubTaskLinesOfLine(op.tasks, i)
                   /\ j \notin TaskDefLines(op.tasks)
        /\ \A k \in 1..Len(op.tasks) :
               \A a \in 1..Len(op.tasks[k].subTasks), b \in 1..Len(op.tasks[k].subTasks) :
                   a < b => op.tasks[k].subTasks[a].lineIndex < op.tasks[k].subTasks[b].lineIndex

\* C11 witness: a heading task that took an unindented and an indented
\* checkbox line as its two subtasks.
C11_Witness ==
    /\ op.kind = "loadTasks"
    /\ \E k \in 1..Len(op.tasks) :
           /\ IsHeadingStyle(DefiningLine(op.tasks[k]))
           /\ Len(op.tasks[k].subTasks) = 2
           /\ LeadSpaces(input[op.tasks[k].subTasks[1].lineIndex + 1]) = 0
           /\ LeadSpaces(input[op.tasks[k].subTasks[2].lineIndex + 1]) >= 2

\* A line that is blank, a heading other than a `###` task heading, a
\* blockquote, an HTML comment, or a dash or star bullet that is no checkbox
\* line.  The kinds are told apart as the parser does, by the first
\* characters of the trimmed line: `#`, `>`, `<!--`, `-`, `*`.
IsNeutralLine(line) ==
    LET t == Trim(StripCR(line))
    IN  \/ t = <<>>
        \/ t[1] \in HashToks /\ ~HeadingTaskMatch(StripCR(line)).ok
        \/ t[1] \in QuoteToks
        \/ t[1] \in CommentToks
        \/ t[1] \in DashToks \cup StarToks /\ ~TaskLineMatch(StripCR(line)).ok

\* C12: after a closing line the next checkbox line is a top-level task even
\* when indented; blank lines, non-task headings, blockquotes, HTML comments
\* and plain bullets between a task and a later checkbox line leave the task
\* open, so the checkbox line (any under a heading task, an indented one
\* under a checkbox task) is its subtask.
C12_ClosingRule ==
    op.kind = "loadTasks" =>
        \A i \in BodyLines(input), j \in BodyLines(input) :
            (i < j /\ IsCheckboxLine(input[j])) =>
                /\ (/\ IsClosingLine(input[i])
                    /\ \A m \in (i + 1)..(j - 1) :
                           ~IsCheckboxLine(input[m]) /\ ~IsHeadingTaskLine(input[m])) =>
                       j \in TaskDefLines(op.tasks)
                /\ (/\ i \in TaskDefLines(op.tasks)
                    /\ \A m \in (i + 1)..(j - 1) : IsNeutralLine(input[m])
                    /\ (IsHeadingTaskLine(input[i]) \/ LeadSpaces(input[j]) >= 2)) =>
                       j \in SubTaskLinesOfLine(op.tasks, i)

\* C12 witness: a checkbox task, a closing text line, then an indented
\* checkbox line that became the second top-level task.
C12_Witness ==
    /\ op.kind = "loadTasks"
    /\ Len(input) = 3
    /\ IsCheckboxLine(input[1])
    /\ IsClosingLine(input[2])
    /\ IsCheckboxLine(input[3]) /\ LeadSpaces(input[3]) >= 2
    /\ TaskDefLines(op.tasks) = {1, 3}

\* The id forms of a task line of IdLines; the line carries an explicit id
\* when it has the comment, the bold prefix or, on a heading, the `C: `
\* prefix.
CaseOf(line) == CHOOSE c \in IdCases : IdLine(c) = line

IsIdCaseLine(line) == \E c \in IdCases : IdLine(c) = line

HasExplicitId(c) == c.comment # "none" \/ c.bold \/ (c.heading /\ c.colon)

\* C13: a task without explicit id has the id T<n>, n its 1-based position
\* among the top-level tasks of the document, heading and checkbox tasks and
\* tasks with explicit ids all counted; subtask and frontmatter lines are
\* not counted.
C13_AutoIdIsTaskPosition ==
    op.kind = "loadTasks" =>
        \A k \in 1..Len(op.tasks) :
            LET line == DefiningLine(op.tasks[k])
            IN  (IsIdCaseLine(line) /\ ~HasExplicitId(CaseOf(line))) =>
                    op.tasks[k].id = "T" \o ToString(k)

\* C13 witness: the second task has the auto-assigned id T2 after a task with
\* an explicit id and its subtask.
C13_Witness ==
    /\ op.kind = "loadTasks"
    /\ Len(op.tasks) = 2
    /\ \A k \in 1..2 : IsIdCaseLine(DefiningLine(op.tasks[k]))
    /\ HasExplicitId(CaseOf(DefiningLine(op.tasks[1])))
    /\ Len(op.tasks[1].subTasks) = 1
    /\ ~HasExplicitId(CaseOf(DefiningLine(op.tasks[2])))
    /\ op.tasks[2].id = "T2"

\* The id and the title the claim gives a task line with id forms c that is
\* the k-th task: comment, else bold prefix, else (headings) `C: ` prefix,
\* else T<k>; the title is the text without the form that gave the id.
ExpectedId(c, k) ==
    IF c.comment # "none" THEN "A"
    ELSE IF c.bold THEN "B"
    ELSE IF c.heading /\ c.colon THEN "C"
    ELSE "T" \o ToString(k)

ExpectedTitle(c) ==
    IF c.comment # "none" THEN BoldPrefix(c) \o ColonPrefix(c) \o <<"a">>
    ELSE IF c.bold THEN ColonPrefix(c) \o <<"a">>
    ELSE IF c.heading /\ c.colon THEN <<"a">>
    ELSE ColonPrefix(c) \o <<"a">>

\* C14: the id comes from the first form present in the order comment, bold
\* prefix, bare `C: ` prefix (heading tasks only), else the auto id; only the
\* form that gave the id is removed from the title, so a checkbox task
\* `- [ ] C: a` has an auto id and the title `C: a`.
C14_TaskIdPrecedence ==
    op.kind = "loadTasks" =>
        \A k \in 1..Len(op.tasks) :
            LET line == DefiningLine(op.tasks[k])
            IN  IsIdCaseLine(line) =>
                    /\ op.tasks[k].id = ExpectedId(CaseOf(line), k)
                    /\ op.tasks[k].title = ExpectedTitle(CaseOf(line))

\* C14 witness: a task line carrying the comment, the bold prefix and the
\* `C: ` prefix together, and a checkbox task with only the `C: ` prefix.
C14_Witness ==
    /\ op.kind = "loadTasks"
    /\ \E k \in 1..Len(op.tasks) :
           /\ IsIdCaseLine(DefiningLine(op.tasks[k]))
           /\ LET c == CaseOf(DefiningLine(op.tasks[k]))
              IN  c.comment # "none" /\ c.bold /\ c.colon
    /\ \E k \in 1..Len(op.tasks) :
           /\ IsIdCaseLine(DefiningLine(op.tasks[k]))
           /\ LET c == CaseOf(DefiningLine(op.tasks[k]))
              IN  ~c.heading /\ c.comment = "none" /\ ~c.bold /\ c.colon

\* The requirement linkage of a task line of ReqLines, and what the entries
\* of its comment and its title text name.
ReqCaseOf(line) == CHOOSE c \in ReqCases : ReqLine(c) = line

IsReqCaseLine(line) == \E c \in ReqCases : ReqLine(c) = line

CommentIds(c) ==
    CASE c.req = "one" -> <<"REQ-1">>
      [] c.req = "two" -> <<"REQ-1", "R2">>
      [] c.req = "twice" -> <<"REQ-1", "REQ-1">>
      [] OTHER -> <<>>

TitleIds(c) ==
    CASE c.text = "one" -> <<"R2">>
      [] c.text = "twice" -> <<"REQ-1">>
      [] OTHER -> <<>>

\* The original reading of C15: whenever the title holds a requires comment,
\* requirementIds is exactly the list of its normalized entries, the comment
\* is gone from the title and nothing is inferred from the title text.
C15_RequiresCommentAlwaysAuthoritative ==
    op.kind = "loadTasks" =>
        \A k \in 1..Len(op.tasks) :
            LET line == DefiningLine(op.tasks[k])
            IN  (IsReqCaseLine(line) /\ ReqCaseOf(line).req # "none") =>
                    /\ op.tasks[k].requirementIds.ids = CommentIds(ReqCaseOf(line))
                    /\ op.tasks[k].title = ReqText(ReqCaseOf(line))

\* C15: a requires comment with at least one entry that is not empty once
\* normalized is authoritative: requirementIds is exactly the list of those
\* entries and nothing is inferred from the title text; when no entry is
\* left, the ids are those inferred from the title text.  Either way the
\* comment is removed from the title.
C15_RequiresCommentAuthoritativeWhenNonEmpty ==
    op.kind = "loadTasks" =>
        \A k \in 1..Len(op.tasks) :
            LET line == DefiningLine(op.tasks[k])
            IN  (IsReqCaseLine(line) /\ ReqCaseOf(line).req # "none") =>
                    LET c == ReqCaseOf(line)
                    IN  /\ op.tasks[k].title = ReqText(c)
                        /\ op.tasks[k].requirementIds.ids =
                               IF CommentIds(c) # <<>> THEN CommentIds(c) ELSE TitleIds(c)

\* C15 witness: a task whose comment names REQ-1 and R2 (written `-req-1`
\* and `R2:`) while its title text names another id.
C15_Witness ==
    /\ op.kind = "loadTasks"
    /\ \E k \in 1..Len(op.tasks) :
           /\ IsReqCaseLine(DefiningLine(op.tasks[k]))
           /\ ReqCaseOf(DefiningLine(op.tasks[k])).req = "two"
           /\ ReqCaseOf(DefiningLine(op.tasks[k])).text = "twice"
           /\ op.tasks[k].requirementIds.ids = <<"REQ-1", "R2">>

\* C16: requirementIds is undefined or a non-empty list of pairwise distinct
\* normalized ids, and it is undefined when neither the requires comment nor
\* the title text yields an id.
C16_RequirementIdsUndefinedOrNonEmptySet ==
    op.kind = "loadTasks" =>
        \A k \in 1..Len(op.tasks) :
            LET r == op.tasks[k].requirementIds
                line == DefiningLine(op.tasks[k])
            IN  /\ r.defined =>
                       /\ r.ids # <<>>
                       /\ \A i \in 1..Len(r.ids), j \in 1..Len(r.ids) :
                              i # j => r.ids[i] # r.ids[j]
                       /\ \A i \in 1..Len(r.ids) : r.ids[i] \in {"REQ-1", "R2"}
                /\ (/\ IsReqCaseLine(line)
                    /\ CommentIds(ReqCaseOf(line)) = <<>>
                    /\ TitleIds(ReqCaseOf(line)) = <<>>) => ~r.defined

\* The lines (1-based) of the tasks and subtasks, and of the issues.
TaskAndSubTaskLines(tasks) ==
    TaskDefLines(tasks) \cup UNION {SubTaskLines(tasks[k]) : k \in 1..Len(tasks)}

IssueLines(issues) == {issues[k].line + 1 : k \in 1..Len(issues)}

\* C17: the frontmatter block (line 0 when it is `---`, up to and including
\* the next `---` line) gives no task, subtask, fileGlob or issue, and every
\* line after it (every line, when line 0 is not `---`) is a body line: the
\* tasks and subtasks are defined on exactly the body's checkbox lines, with
\* their line index in the full text, the fileGlob is defined exactly when a
\* body line holds the files comment, and the issues are those of the body's
\* invalid-marker lines.
C17_FrontmatterSkipped ==
    LET body == BodyLines(input)
    IN  /\ op.kind = "loadTasks" =>
            /\ TaskAndSubTaskLines(op.tasks)
                   = {i \in body : input[i] \in FrontTaskLines}
            /\ op.fileGlob.defined
                   <=> \E i \in body : input[i] \in FrontFilesLines
        /\ op.kind = "validateTaskMarkdown" =>
            /\ IssueLines(op.issues)
                   = {i \in body : input[i] \in FrontBadLines}
            /\ Len(op.issues) = Cardinality(IssueLines(op.issues))

\* A parse of a text whose frontmatter of three lines holds a checkbox line,
\* with a task on the line after it.
C17_Witness ==
    /\ op.kind = "loadTasks"
    /\ FrontmatterLen(input) = 3
    /\ input[2] \in FrontTaskLines
    /\ Len(input) = 4
    /\ Len(op.tasks) = 1
    /\ op.tasks[1].lineIndex = 3

\* The files case written on a line, and the body lines (1-based) holding a
\* files comment.
FilesCaseOf(line) == CHOOSE c \in FilesCases : FilesLine(c) = line
IsFilesCaseLine(line) == \E c \in FilesCases : FilesLine(c) = line
FilesLinesOf(lines) == {i \in BodyLines(lines) : IsFilesCaseLine(lines[i])}

\* The glob of a files case as text, trimmed.
ExpectedGlob(c) == IF c.glob = "one" THEN "src/**" ELSE "src/** lib/*"

\* The text with its files lines blanked.
WithoutFilesLines(lines) ==
    [i \in 1..Len(lines) |->
        IF i \in FilesLinesOf(lines) THEN BlankLine ELSE lines[i]]

\* C18: when exactly one body line holds a files comment the fileGlob is the
\* comment's glob, trimmed; when none does the fileGlob is undefined; a line
\* holding the files comment defines no task and no subtask, and the tasks
\* are those of the text with the files lines blanked (no task opened,
\* closed or changed by them).
C18_FileGlobAndFilesLines ==
    op.kind = "loadTasks" =>
        LET files == FilesLinesOf(input)
        IN  /\ Cardinality(files) = 1 =>
                \A i \in files :
                    op.fileGlob = [defined |-> TRUE,
                                   glob |-> ExpectedGlob(FilesCaseOf(input[i]))]
            /\ files = {} => ~op.fileGlob.defined
            /\ files \cap TaskAndSubTaskLines(op.tasks) = {}
            /\ op.tasks = parseTasks(WithoutFilesLines(input)).tasks

\* A parse of a text with a task, then a text line holding the only files
\* comment, then a subtask of that task.
C18_Witness ==
    /\ op.kind = "loadTasks"
    /\ Len(input) = 3
    /\ FilesLinesOf(input) = {2}
    /\ FilesCaseOf(input[2]).pre = "text"
    /\ op.fileGlob.defined
    /\ Len(op.tasks) = 1
    /\ SubTaskLines(op.tasks[1]) = {3}

\* The ids of the task comments a line carries, and the id of the first of
\* them ("" when the line has none).
IsDupCaseLine(line) == \E c \in DupCases : DupLine(c) = line
DupCaseOf(line) == CHOOSE c \in DupCases : DupLine(c) = line
CarriedIds(line) ==
    IF IsDupCaseLine(line)
    THEN {DupCaseOf(line).first, DupCaseOf(line).second} \ {""}
    ELSE {}
FirstCarriedId(line) ==
    IF IsDupCaseLine(line) THEN DupCaseOf(line).first ELSE ""

\* The duplicate-id issues of line i (1-based) that name id.
DuplicatesAt(issues, i, id) ==
    {k \in 1..Len(issues) :
        /\ issues[k].rule = "duplicate"
        /\ issues[k].line = i - 1
        /\ issues[k].id = id}

\* The duplicate-id issues are as they should be when the lines that define
\* id are those of defs (1-based): none on the first of them, exactly one on
\* each later one, an error naming the first one's 1-based number.
ReportedAgainstFirst(issues, id, defs) ==
    defs # {} =>
        /\ DuplicatesAt(issues, MinOf(defs), id) = {}
        /\ \A i \in defs \ {MinOf(defs)} :
               /\ Cardinality(DuplicatesAt(issues, i, id)) = 1
               /\ \A k \in DuplicatesAt(issues, i, id) :
                      /\ issues[k].severity = "error"
                      /\ issues[k].firstLine = MinOf(defs)

\* C19 as stated: for every id, the first body line carrying a task comment
\* of the id has no duplicate issue, and every later line carrying one has
\* exactly one, an error with the line's 0-based index that names the
\* 1-based number of the first line.
C19_DuplicatesAgainstFirstCarrying ==
    op.kind = "validateTaskMarkdown" =>
        \A id \in {"A", "T2"} :
            ReportedAgainstFirst(op.issues, id,
                {i \in BodyLines(input) : id \in CarriedIds(input[i])})

\* C19: for every id, the first body line whose first task comment is of
\* the id has no duplicate issue, and every later line whose first task
\* comment is of the id has exactly one, an error with the line's 0-based
\* index that names the 1-based number of the first line; no other line has
\* a duplicate issue for the id.
C19_DuplicatesAgainstFirstDefinition ==
    op.kind = "validateTaskMarkdown" =>
        \A id \in {"A", "T2"} :
            LET defs == {i \in BodyLines(input) : FirstCarriedId(input[i]) = id}
            IN  /\ ReportedAgainstFirst(op.issues, id, defs)
                /\ \A i \in 1..Len(input) :
                       i \notin defs => DuplicatesAt(op.issues, i, id) = {}

\* A validation of three lines, the first and the third with the same id
\* and the second with another: one issue, on line index 2, naming line 1.
C19_Witness ==
    /\ op.kind = "validateTaskMarkdown"
    /\ Len(input) = 3
    /\ FirstCarriedId(input[1]) = "A"
    /\ FirstCarriedId(input[2]) = "T2"
    /\ FirstCarriedId(input[3]) = "A"
    /\ Len(op.issues) = 1
    /\ op.issues[1].line = 2
    /\ op.issues[1].firstLine = 1

\* The rule case written on a line, and the rules in the order the claim
\* lists them.
RuleCaseOf(line) == CHOOSE c \in RuleCases : RuleLine(c) = line
RuleNames == <<"marker", "duplicate", "requires", "unclosed">>
RuleRank(rule) == CHOOSE n \in 1..4 : RuleNames[n] = rule

\* Line i (1-based) of the text breaks the rule.
Breaks(lines, i, rule) ==
    LET c == RuleCaseOf(lines[i])
    IN  CASE rule = "marker" -> c.bad
          [] rule = "duplicate" ->
                c.id /\ \E j \in 1..(i - 1) : RuleCaseOf(lines[j]).id
          [] rule = "requires" -> c.req
          [] rule = "unclosed" -> c.unclosed

BrokenRules(lines, i) == {n \in 1..4 : Breaks(lines, i, RuleNames[n])}

\* The issues (positions in the list) of line i (1-based).
IssuesAt(issues, i) == {k \in 1..Len(issues) : issues[k].line = i - 1}

\* C20: the issues come in line order and, within a line, in the order
\* invalid marker, duplicate id, malformed requires, unclosed comment, with at
\* most one issue per rule and line; a line has an issue of a rule exactly
\* when it breaks the rule, whatever other rules it breaks, so that a line
\* breaking one rule has exactly one issue, with its 0-based index; the
\* malformed-requires issue is a warning and the others are errors.
C20_RulesIndependentAndOrdered ==
    op.kind = "validateTaskMarkdown" =>
        LET issues == op.issues
        IN  /\ \A k, l \in 1..Len(issues) :
                   k < l =>
                       \/ issues[k].line < issues[l].line
                       \/ /\ issues[k].line = issues[l].line
                          /\ RuleRank(issues[k].rule) < RuleRank(issues[l].rule)
            /\ \A k \in 1..Len(issues) :
                   /\ issues[k].line + 1 \in 1..Len(input)
                   /\ issues[k].severity
                          = (IF issues[k].rule = "requires" THEN "warning" ELSE "error")
            /\ \A i \in 1..Len(input) :
                   /\ {RuleRank(issues[k].rule) : k \in IssuesAt(issues, i)}
                          = BrokenRules(input, i)
                   /\ Cardinality(IssuesAt(issues, i))
                          = Cardinality(BrokenRules(input, i))

\* A validation where the second line breaks the four rules and has four
\* issues, and the third line breaks one rule and has one.
C20_Witness ==
    /\ op.kind = "validateTaskMarkdown"
    /\ Len(input) = 3
    /\ RuleCaseOf(input[1]).id
    /\ BrokenRules(input, 2) = 1..4
    /\ Cardinality(IssuesAt(op.issues, 2)) = 4
    /\ BrokenRules(input, 3) = {1}
    /\ Cardinality(IssuesAt(op.issues, 3)) = 1

\* The words of a text of Texts, and the requirement id a word is ("" for
\* a word that is none), in normalized form.
WordsOf(text) == SelectSeq(text, LAMBDA t : t \notin TextSeparators)
IdOfWord(w) ==
    CASE w \in {"REQ-1", "req-1"} -> "REQ-1"
      [] w \in {"R2", "r2"} -> "R2"
      [] OTHER -> ""
FirstWordOf(words, id) == MinOf({i \in 1..Len(words) : IdOfWord(words[i]) = id})

\* C21: the ids returned are the requirement tokens of the text in
\* normalized form, each exactly once (tokens differing in letter case being
\* one id), in the order of their first occurrences; a text without a
\* requirement token gives the empty list.
C21_ExtractedIdsNormalizedOnceInOrder ==
    op.kind = "extractRequirementIdsFromText" =>
        LET words == WordsOf(input[1])
            ids == op.ids
        IN  /\ {ids[k] : k \in 1..Len(ids)}
                   = {IdOfWord(words[i]) : i \in 1..Len(words)} \ {""}
            /\ \A k, l \in 1..Len(ids) :
                   k < l => /\ ids[k] # ids[l]
                            /\ FirstWordOf(words, ids[k]) < FirstWordOf(words, ids[l])

\* An extraction from a text such as `r2 REQ-1 a R2`: two ids for three
\* tokens, the id of the repeated token first.
C21_Witness ==
    /\ op.kind = "extractRequirementIdsFromText"
    /\ WordsOf(input[1]) = <<"r2", "REQ-1", "a", "R2">>
    /\ op.ids = <<"R2", "REQ-1">>

IsResolution ==
    op.kind \in {"provideRequirementsDocumentCodeLenses",
                 "openRequirementTasks", "showRequirementTaskMap"}

\* The task lines of the document, by the names of its lines: the unindented
\* checkbox lines, and an indented one with no task open before it (at the
\* top, or behind a text line, which closes the task).
XrefNameOf(line) == CHOOSE name \in XrefLineNames : XrefLine(name) = line
IsXrefTaskLine(i) ==
    \/ XrefNameOf(input[i]) \in {"plain", "requires", "title", "other"}
    \/ /\ XrefNameOf(input[i]) = "sub"
       /\ (i = 1 \/ XrefNameOf(input[i - 1]) = "text")
XrefTaskLines == {i \in 1..Len(input) : IsXrefTaskLine(i)}

\* The names of the lines of the block of the task of line i: its own line
\* and the lines up to the next task line.
XrefBlockNames(i) ==
    {XrefNameOf(input[j]) :
        j \in {n \in i..Len(input) :
                  \A m \in (i + 1)..n : ~IsXrefTaskLine(m)}}

\* What each line links to: the ids a task line links explicitly, and the
\* ids a line of a block mentions.
LinkedBy(name) ==
    CASE name = "requires" -> {"REQ-1"}
      [] name = "title" -> {"R2"}
      [] name = "sub" -> {"R2"}
      [] name = "other" -> {"ABC-1"}
      [] OTHER -> {}
MentionedBy(name) ==
    CASE name = "requires" -> {"REQ-1"}
      [] name = "title" -> {"R2"}
      [] name = "text" -> {"REQ-1"}
      [] name = "sub" -> {"R2"}
      [] OTHER -> {}

\* The task ids of the three strategies for the resolved requirement, in
\* document order (the tasks are T1, T2, ... from the top).
IdsOfLines(keep) ==
    LET kept == XrefTaskLines \cap keep
        Rank(S, i) == Cardinality({j \in S : j <= i})
    IN  [p \in 1..Cardinality(kept) |->
            AutoId(Rank(XrefTaskLines, CHOOSE i \in kept : Rank(kept, i) = p))]
ExplicitIds ==
    IdsOfLines({i \in 1..Len(input) :
                   op.reqId \in LinkedBy(XrefNameOf(input[i]))})
MentionIds ==
    IdsOfLines({i \in 1..Len(input) :
                   \E name \in XrefBlockNames(i) : op.reqId \in MentionedBy(name)})
InferredIds ==
    IdsOfLines({i \in 1..Len(input) :
                   /\ op.block.defined
                   /\ XrefNameOf(input[i]) \in {"plain", "requires"}})

\* C22: the tasks addressing a requirement are the explicitly linked ones
\* when there is one; otherwise the ones whose block mentions the id when
\* there is one; otherwise the ones inferred from keywords; the results of two
\* strategies are never combined.
C22_StrictFallback ==
    IsResolution =>
        op.addressing = (IF ExplicitIds # <<>> THEN ExplicitIds
                         ELSE IF MentionIds # <<>> THEN MentionIds
                         ELSE InferredIds)

\* A resolution of REQ-1 over a task linked to it by a requires comment and
\* a second task that shares two keywords with the requirement and whose
\* block mentions the id: the first task alone addresses it.
C22_Witness ==
    /\ IsResolution
    /\ op.reqId = "REQ-1"
    /\ Len(input) = 3
    /\ XrefNameOf(input[1]) = "requires"
    /\ XrefNameOf(input[2]) = "plain"
    /\ XrefNameOf(input[3]) = "text"
    /\ op.block.defined
    /\ MentionIds = <<"T1", "T2">>
    /\ InferredIds = <<"T1", "T2">>
    /\ op.addressing = <<"T1">>

\* The keywords of the titles as sets and lists, written out: tokens of at
\* least 5 characters outside the requirement stopwords, the first 8 of them.
TitleNameOf(title) == CHOOSE name \in TaskTitleNames : TaskTitle(name) = title
LongKeywordsOfTask(name) ==
    CASE name = "two" -> <<"session", "token">>
      [] name = "three" -> <<"session", "token", "login">>
      [] name = "page" -> <<"login">>
      [] name = "update" -> <<"update", "session">>
      [] name = "six" -> <<"alpha", "bravo", "delta", "hotel", "session", "token">>
      [] name = "ten" -> <<"alpha", "bravo", "delta", "hotel", "india",
                           "recovery", "login", "update">>

\* The keywords of the task titles by the other derivation: tokens of at
\* least 4 characters outside the task stopwords, the first 6 of them.
ShortKeywordsOfTask(name) ==
    CASE name = "two" -> <<"session", "token">>
      [] name = "three" -> <<"session", "token", "login">>
      [] name = "page" -> <<"login", "page">>
      [] name = "update" -> <<"session">>
      [] name = "six" -> <<"alpha", "bravo", "delta", "hotel", "session", "token">>
      [] name = "ten" -> <<"alpha", "bravo", "delta", "hotel", "india",
                           "recovery">>

BlockNameOf(title) == CHOOSE name \in BlockTitleNames : BlockTitle(name) = title
KeywordsOfBlock(name) ==
    CASE name = "two" -> <<"session", "token">>
      [] name = "three" -> <<"session", "token", "login">>
      [] name = "one" -> <<"token">>
      [] name = "twice" -> <<"login", "login", "recovery">>
      [] name = "update" -> <<"update", "session", "token">>
      [] name = "five" -> <<"session", "token", "delta", "hotel", "india">>
      [] name = "none" -> <<>>

Elements(seq) == {seq[i] : i \in 1..Len(seq)}

\* The positions of the tasks a block's keyword sets infer: at least 2
\* shared keywords and, for a block of 3 or more keywords, shared keywords
\* over the larger of the two numbers of keywords at least 0.4.
SharedKeywords(block, task) ==
    Elements(block.keywords) \cap Elements(LongKeywordsOfTask(TitleNameOf(task.title)))
InferredByKeywordSets(block, tasks) ==
    {k \in 1..Len(tasks) :
        LET shared == Cardinality(SharedKeywords(block, tasks[k]))
            nreq == Cardinality(Elements(block.keywords))
            ntask == Cardinality(Elements(LongKeywordsOfTask(TitleNameOf(tasks[k].title))))
        IN  /\ shared >= 2
            /\ nreq >= 3 => 10 * shared >= 4 * MaxNum(nreq, ntask)}

\* C23: the tasks inferred for a block are exactly those that share at
\* least 2 keywords with it and, when the block has 3 or more keywords, whose
\* shared keywords over the larger number of keywords is at least 0.4; they
\* come by number of shared keywords descending, ties by ascending id; a
\* block with fewer than 2 keywords has no inferred task.
C23_InferenceThresholdAndRanking ==
    op.kind = "inferTasksForRequirement" =>
        LET res == op.result
            block == op.block
        IN  /\ Elements(res)
                   = {op.tasks[k] : k \in InferredByKeywordSets(block, op.tasks)}
            /\ \A i, j \in 1..Len(res) :
                   i < j =>
                       LET si == Cardinality(SharedKeywords(block, res[i]))
                           sj == Cardinality(SharedKeywords(block, res[j]))
                       IN  \/ si > sj
                           \/ si = sj /\ IdRank(res[i].id) <= IdRank(res[j].id)
            /\ Cardinality(Elements(block.keywords)) < 2 => res = <<>>

\* C24 as stated: in keyword inference the keywords of a task are the
\* tokens of its title of at least 4 characters outside the task stopwords,
\* at most 6, and those of a requirement the tokens of at least 5 characters
\* outside the requirement stopwords, at most 8.
C24_TaskSideUsesItsOwnKeywords ==
    op.kind = "inferTasksForRequirement" =>
        /\ op.block.defined =>
               op.block.keywords = KeywordsOfBlock(BlockNameOf(op.block.title))
        /\ \A k \in 1..Len(op.tasks) :
               op.taskKeywords[k]
                   = ShortKeywordsOfTask(TitleNameOf(op.tasks[k].title))

\* C24: in keyword inference the keywords of a task are taken as those of
\* a requirement are: the tokens of its title of at least 5 characters
\* outside the requirement stopwords, at most 8.
C24_TaskSideUsesRequirementKeywords ==
    op.kind = "inferTasksForRequirement" =>
        /\ op.block.defined =>
               op.block.keywords = KeywordsOfBlock(BlockNameOf(op.block.title))
        /\ \A k \in 1..Len(op.tasks) :
               op.taskKeywords[k]
                   = LongKeywordsOfTask(TitleNameOf(op.tasks[k].title))

\* An inference for the block `update session token` over the task
\* `update session`: `update` counts as a keyword of the task and the task is
\* inferred.
C24_Witness ==
    /\ op.kind = "inferTasksForRequirement"
    /\ op.block.defined
    /\ BlockNameOf(op.block.title) = "update"
    /\ Len(op.tasks) >= 2
    /\ TitleNameOf(op.tasks[1].title) = "update"
    /\ TitleNameOf(op.tasks[2].title) = "ten"
    /\ op.taskKeywords[1] = <<"update", "session">>
    /\ Len(op.taskKeywords[2]) = 8
    /\ op.result = <<op.tasks[1]>>

\* C9: a heading-style task without inline checkbox is completed exactly when
\* it has at least one subtask and all its subtasks are completed (so with no
\* subtask it is not completed).
C9_HeadingCompletedIsAndOfSubtasks ==
    op.kind = "loadTasks" =>
        \A k \in 1..Len(op.tasks) :
            LET task == op.tasks[k]
                line == DefiningLine(task)
            IN  (IsHeadingStyle(line) /\ ~CarriesInlineCheckbox(line)) =>
                    task.completed = (Len(task.subTasks) > 0 /\ SubTasksAnd(task))

\* C9 witness: a parsed heading task without inline checkbox that has one
\* completed and one uncompleted subtask.
C9_Witness ==
    /\ op.kind = "loadTasks"
    /\ \E k \in 1..Len(op.tasks) :
           LET task == op.tasks[k]
               line == DefiningLine(task)
           IN  /\ IsHeadingStyle(line) /\ ~CarriesInlineCheckbox(line)
               /\ Len(task.subTasks) = 2
               /\ task.subTasks[1].completed # task.subTasks[2].completed
               /\ ~task.completed

\* C10: the completed value of a checkbox-style task, and of a heading-style
\* task whose line carries an inline checkbox, is the state of the task's own
\* marker, whatever its subtasks.
C10_OwnMarkerAuthoritative ==
    op.kind = "loadTasks" =>
        \A k \in 1..Len(op.tasks) :
            LET task == op.tasks[k]
                line == DefiningLine(task)
            IN  (IsCheckboxStyle(line) \/ CarriesInlineCheckbox(line)) =>
                    task.completed = IsChecked(OwnMarker(line))

\* The lineIndex values of the tasks and subtasks of a parse result, one
\* element per task and per subtask.
OwnedLineIndexes(tasks) ==
    [k \in 1..Len(tasks) |->
        [j \in 1..Len(tasks[k].subTasks) |-> tasks[k].subTasks[j].lineIndex]]
NumberOfTasksAndSubTasks(tasks) ==
    LET F[k \in 0..Len(tasks)] ==
            IF k = 0 THEN 0 ELSE F[k - 1] + 1 + Len(tasks[k].subTasks)
    IN  F[Len(tasks)]

\* C25: in every parse result the tasks come in strictly increasing
\* lineIndex, the subtasks of each task come in strictly increasing lineIndex,
\* every subtask lies strictly between its owner's line and the line of the
\* next task (if any), and no line yields more than one task or subtask.
C25_SubtaskOwnership ==
    op.kind = "loadTasks" =>
        LET tasks == op.tasks
            subs == OwnedLineIndexes(tasks)
        IN  /\ \A k \in 1..(Len(tasks) - 1) :
                   tasks[k].lineIndex < tasks[k + 1].lineIndex
            /\ \A k \in 1..Len(tasks) :
                   /\ \A j \in 1..(Len(subs[k]) - 1) : subs[k][j] < subs[k][j + 1]
                   /\ \A j \in 1..Len(subs[k]) :
                          /\ tasks[k].lineIndex < subs[k][j]
                          /\ k < Len(tasks) => subs[k][j] < tasks[k + 1].lineIndex
            /\ Cardinality(TaskAndSubTaskLines(tasks))
                   = NumberOfTasksAndSubTasks(tasks)
            /\ TaskAndSubTaskLines(tasks) \subseteq 1..Len(input)

\* A parse of a checkbox task, a heading task and an indented checkbox
\* line: the last line is a subtask of the heading task, not of the checkbox
\* task.
C25_Witness ==
    /\ op.kind = "loadTasks"
    /\ Len(input) = 3
    /\ input[1] = CheckboxLine(<<>>, "[ ]", <<"a">>)
    /\ input[2] = HeadingLine
    /\ input[3] = CheckboxLine(<<" ", " ">>, "[ ]", <<"s">>)
    /\ Len(op.tasks) = 2
    /\ op.tasks[1].subTasks = <<>>
    /\ Len(op.tasks[2].subTasks) = 1
    /\ op.tasks[2].subTasks[1].lineIndex = 2

\* C26: if a parse returns two tasks with the same id, the validator
\* reports a duplicate-task-ID error on the document.
C26_DuplicateIdsAreReported ==
    op.kind = "loadTasks" =>
        ((\E k, l \in 1..Len(op.tasks) : k # l /\ op.tasks[k].id = op.tasks[l].id)
            => \E n \in DOMAIN validateTaskMarkdown(input) :
                   /\ validateTaskMarkdown(input)[n].rule = "duplicate"
                   /\ validateTaskMarkdown(input)[n].severity = "error")

\* A task without its completed flags: id, title, requirementIds, lineIndex
\* and the title and lineIndex of each subtask.
WithoutCompleted(task) ==
    [id |-> task.id, title |-> task.title,
     requirementIds |-> task.requirementIds, lineIndex |-> task.lineIndex,
     subTasks |-> [j \in 1..Len(task.subTasks) |->
                      [title |-> task.subTasks[j].title,
                       lineIndex |-> task.subTasks[j].lineIndex]]]
AllWithoutCompleted(tasks) ==
    [k \in 1..Len(tasks) |-> WithoutCompleted(tasks[k])]

\* C27: the text written by setTaskCompleted or markTaskAndSubtasksCompleted
\* parses to the same tasks in the same order as the text read, with the same
\* id, title, requirementIds, lineIndex and subtasks (title and lineIndex);
\* only completed flags differ.
C27_ToggleChangesCompletionOnly ==
    IsToggle => AllWithoutCompleted(OutputTasks) = AllWithoutCompleted(InputTasks)

\* Both calls have returned, each after a write, and each read the file
\* before any write landed.
BothReadBeforeEitherWrote ==
    /\ op.kind = "toggles"
    /\ \A p \in 1..2 : op.calls[p].pc = "done" /\ op.calls[p].fresh
    /\ op.last # 0

\* The lines (1-based) of the task a call names in the text the calls
\* started from: its defining line and the lines of its subtasks.
LinesOfCall(call) ==
    LET k == FindTask(InputTasks, call.taskId)
    IN  {InputTasks[k].lineIndex + 1} \cup SubTaskLines(InputTasks[k])

\* C28: when two toggles for different task ids both read the tasks file
\* before either writes, the final file carries the marker change of the call
\* that wrote last only: every line outside that call's task is as it was
\* before the two calls, the other call's task included, and a checkbox task
\* named by the last writer parses with the value that call asked for.
C28_LostUpdate ==
    BothReadBeforeEitherWrote =>
        LET winner == op.calls[op.last]
            k == FindTask(InputTasks, winner.taskId)
        IN  /\ Len(content) = Len(input)
            /\ \A i \in 1..Len(input) :
                   i \notin LinesOfCall(winner) => content[i] = input[i]
            /\ IsCheckboxStyle(DefiningLine(InputTasks[k])) =>
                   OutputTasks[k].completed = winner.completed

\* Two setTaskCompleted(.., true) calls for the two unchecked tasks of a
\* document, both reading before either writes: the file ends with the second
\* task checked and the first still unchecked.
C28_Witness ==
    /\ BothReadBeforeEitherWrote
    /\ input = <<CheckboxLine(<<>>, "[ ]", <<"a">>),
                 CheckboxLine(<<>>, "[ ]", <<"a">>)>>
    /\ \A p \in 1..2 : op.calls[p].fn = "setTaskCompleted" /\ op.calls[p].completed
    /\ op.calls[1].taskId = "T1"
    /\ op.calls[2].taskId = "T2"
    /\ op.last = 2
    /\ content = <<CheckboxLine(<<>>, "[ ]", <<"a">>),
                   CheckboxLine(<<>>, "[x]", <<"a">>)>>

IsAutoLink == op.kind = "autoLink"

\* A step of automatic linking, by the event of the state it leads to.
AutoLinkStep(event) == IsAutoLink /\ op'.kind = "autoLink" /\ op'.event = event

\* C29: automatic linking is single-flight with re-run.  Never are two runs
\* in progress together; a timer firing during a run starts no run and sets
\* the queued flag; when a run ends, by return or by exception, the running
\* and queued flags are cleared and, if the queued flag was set, exactly one
\* timer is pending afterwards, a new one; a trigger leaves exactly one timer
\* pending, a new one in place of the pending one.
C29_SingleFlightWithRerun ==
    /\ [](IsAutoLink => op.runs <= 1 /\ (op.autoLinkRunning <=> op.runs = 1))
    /\ [][/\ (AutoLinkStep("fire") /\ op.runs = 1) =>
                /\ op'.runs = 1
                /\ op'.autoLinkQueued
                /\ op'.created = op.created
          /\ (AutoLinkStep("returned") \/ AutoLinkStep("threw")) =>
                /\ op'.runs = 0
                /\ ~op'.autoLinkRunning
                /\ ~op'.autoLinkQueued
                /\ IF op.autoLinkQueued
                   THEN /\ op'.created = op.created + 1
                        /\ op'.pending = {op'.created}
                   ELSE op'.pending = op.pending /\ op'.created = op.created
          /\ AutoLinkStep("trigger") =>
                /\ op'.created = op.created + 1
                /\ op'.pending = {op'.created}
                /\ op'.runs = op.runs]_vars

\* A run has ended with an exception after a timer fired during it and a
\* later trigger set another timer: the flags are cleared and one new timer
\* is pending.
C29_Witness ==
    /\ IsAutoLink
    /\ op.event = "threw"
    /\ op.triggers = 3
    /\ op.created = 4
    /\ op.pending = {4}
    /\ op.runs = 0
    /\ ~op.autoLinkRunning
    /\ ~op.autoLinkQueued

\* The tasks of the text autopilot started from whose lines (defining line
\* and subtask lines) differ in the tasks file.
ChangedTaskIds ==
    {InputTasks[k].id : k \in {n \in 1..Len(InputTasks) :
        \E i \in {InputTasks[n].lineIndex + 1} \cup SubTaskLines(InputTasks[n]) :
            content[i] # input[i]}}

\* C30: with per-task confirmation enabled, autopilot changes in the tasks
\* file only tasks whose prompt was answered `Apply & Complete` or `Mark
\* Complete Only` (not those answered `Skip`, dismissed, without model, with a
\* failed request or cancelled before the prompt), and starts no task once
\* cancellation is requested.
C30_MarksOnlyOnCompletingChoice ==
    (op.kind = "autopilot" /\ op.confirmEach) =>
        /\ Len(content) = Len(input)
        /\ ChangedTaskIds \subseteq op.chosen
        /\ ~op.startedCancelled

====
